---- MODULE Spec2Model ----
(***************************************************************************)
(* driveway-monitor: the detection source (PredModel), the Tracker, the    *)
(* Notifier and the control server (WebServer), as processes connected by  *)
(* the queues and the shared namespace that main() creates.                *)
(*                                                                         *)
(* Time is counted in ticks of half a second.  Box coordinates are         *)
(* integers on a grid; every coordinate of a detection is even, so that    *)
(* the average of two boxes stays on the grid.  A percent intersection is  *)
(* the fraction n/d, kept as the pair [n, d] and compared by cross         *)
(* multiplication.                                                         *)
(***************************************************************************)
EXTENDS Integers, Sequences, FiniteSets, TLC

VARIABLES
    now,            \* the wall clock (datetime.now), in ticks
    next_id,        \* the next identifier lib_dmutil.rand_id hands out
    video,          \* the video source: what it can show, and for how long
    tracker_cfg,    \* TrackerConfig, fixed at start-up
    tracks_queue,   \* main.tracks_queue: PredModel -> Tracker
    tracks,         \* Tracker._tracks
    notifications_queue, \* main.notifications_queue: Tracker, WebServer -> Notifier
    last_notification,   \* Notifier._last_notification
    mute_until,     \* ntfy_web_share_ns.mute_until
    records,        \* ntfy_web_records_dict
    processed,      \* what the Notifier did with each candidate it dequeued
    web_count,      \* how many requests the control server has answered
    web_last,       \* the last request to the control server and its response
    posts,          \* the notifications the Notifier has POSTed, in order
    enqueued,       \* every notification put on notifications_queue, in order
    enrichment,     \* NtfyConfig.enrichment, fixed at start-up
    notifier_exc,   \* Notifier._run has raised: ChildProcess.run reports the exit
    tracker_state,  \* Tracker._run: "starting", "running" (in its loop) or "raised"
    exit_queue,     \* main.exit_queue: the ChildExit records of the children
    exit_status,    \* the exit status of main, None while the program runs
    health_ping_queue,      \* main.health_ping_queue: PredModel -> HealthPinger
    last_liveness_tick_at,  \* PredModel._run_capture_loop.last_liveness_tick_at
    last_health_ping_at,    \* HealthPinger._share_ns.last_health_ping_at
    pinged,         \* what the HealthPinger did with each HealthPing it dequeued
    exit_taken,     \* the ChildExit record main took from exit_queue
    web_pending,    \* the mute requests a server thread is in the middle of
    mute_writer,    \* the feedback of the request that wrote mute_until last
    attempts,       \* for each POST, in order: its Actions header and the cache then
    is_stream,      \* PredModel._run.is_stream, fixed at start-up
    pred_state,     \* PredModel._run: "capturing", "sleeping", "ended" or "raised"
    reconnect_delay_s,      \* PredModel._run.reconnect_delay_s
    frames_seen_last_run    \* PredModel._frames_seen_last_run

vars == <<now, next_id, video, tracker_cfg, tracks_queue, tracks, notifications_queue,
          last_notification, mute_until, records, processed, web_count, web_last,
          posts, enqueued, enrichment, notifier_exc, tracker_state, exit_queue,
          exit_status, health_ping_queue, last_liveness_tick_at,
          last_health_ping_at, pinged, exit_taken, web_pending, mute_writer,
          attempts, is_stream, pred_state, reconnect_delay_s, frames_seen_last_run>>

\* what main keeps of its children, and the state of the health pings
supervision == <<tracker_state, exit_queue, exit_status, exit_taken>>
health == <<health_ping_queue, last_liveness_tick_at, last_health_ping_at, pinged>>
serving == <<web_pending, mute_writer>>
capture == <<is_stream, pred_state, reconnect_delay_s, frames_seen_last_run>>

----------------------------------------------------------------------------
(* Bounds of the model *)

MaxTime == 3
MaxEvents == 3
MaxQueue == 1
MaxRequests == 1
MaxArrivals == 2
MaxThreads == 2

----------------------------------------------------------------------------
(* Values *)

\* a tick is half a second
TicksPerSecond == 2

None == -1

Classifications == {"car", "truck"}

MkBox(ax, ay, bx, by) == [ax |-> ax, ay |-> ay, bx |-> bx, by |-> by]

\* Three detections side by side: BoxLeft and BoxRight are disjoint, BoxMid
\* overlaps BoxLeft by 8/36 and BoxRight by 12/32.
BoxLeft == MkBox(0, 0, 20, 20)
BoxRight == MkBox(24, 0, 44, 20)
BoxMid == MkBox(12, 0, 36, 20)
\* overlaps BoxLeft, and BoxRight, by exactly 1/5: 120 / (400 + 320 - 120)
BoxEdge == MkBox(14, 0, 30, 20)

Boxes == {BoxLeft, BoxRight, BoxMid, BoxEdge}

\* What the detector reports of one object in one frame
Detection(classification, is_track, box) ==
    [classification |-> classification, is_track |-> is_track, box |-> box]

\* a driveway with cars and trucks, some detections not yet tracks
Detections ==
    {Detection("car", TRUE, BoxLeft), Detection("car", FALSE, BoxLeft),
     Detection("car", TRUE, BoxMid), Detection("car", TRUE, BoxRight),
     Detection("truck", TRUE, BoxMid), Detection("car", TRUE, BoxEdge)}

\* two lanes, every detection a track
ConfirmedDetections ==
    {Detection("car", TRUE, BoxLeft), Detection("car", TRUE, BoxRight),
     Detection("truck", TRUE, BoxLeft)}

\* the same, with a car that the detector confirms as a track only later
LateDetections == ConfirmedDetections \cup {Detection("car", FALSE, BoxLeft)}

\* two lanes of cars
CarDetections ==
    {Detection("car", TRUE, BoxLeft), Detection("car", TRUE, BoxRight)}

\* A video: the detections its frames can hold, and how many it holds
Video(detections, length) == [detections |-> detections, length |-> length]

----------------------------------------------------------------------------
(* lib_geom.Box *)

Max2(a, b) == IF a >= b THEN a ELSE b
Min2(a, b) == IF a <= b THEN a ELSE b

\* Box.percent_intersection_with: i_a / (self_a + other_a - i_a)
PercentIntersection(self, other) ==
    LET self_a == (self.bx - self.ax) * (self.by - self.ay)
        other_a == (other.bx - other.ax) * (other.by - other.ay)
        i_a == Max2(0, Min2(self.bx, other.bx) - Max2(self.ax, other.ax))
               * Max2(0, Min2(self.by, other.by) - Max2(self.ay, other.ay))
    IN  [n |-> i_a, d |-> self_a + other_a - i_a]

\* Box.average_with
AverageWith(self, other) ==
    MkBox((self.ax + other.ax) \div 2, (self.ay + other.ay) \div 2,
          (self.bx + other.bx) \div 2, (self.by + other.by) \div 2)

\* x > y for fractions with positive denominators
FracGt(x, y) == x.n * y.d > y.n * x.d

----------------------------------------------------------------------------
(* Configuration (config.py fills these from the config file).  Durations  *)
(* are in ticks: the default 1.0 s is 2 ticks.                             *)

\* TrackerConfig.inactive_track_prune_s (default 1.0 s)
inactive_track_prune_s == 2

\* TrackerConfig.track_connect_min_overlap (default 0.2), as a fraction
track_connect_min_overlap == [n |-> 1, d |-> 5]

\* NtfyConfig.debounce_threshold_s (default 60.0 s; 1 s here)
debounce_threshold_s == 2

\* ModelConfig.stream_reconnect_initial_backoff_s and _max_backoff_s, the
\* defaults 1.0 s and 30.0 s, and the floor of 0.1 s that _run puts under the
\* first; delays are counted in tenths of a second
stream_reconnect_initial_backoff_s == 10
stream_reconnect_max_backoff_s == 300
reconnect_delay_floor_s == 1

\* PredModel._run: reconnect_delay_s and reconnect_delay_max_s before the loop
ReconnectDelayInit == Max2(stream_reconnect_initial_backoff_s, reconnect_delay_floor_s)
reconnect_delay_max_s == Max2(ReconnectDelayInit, stream_reconnect_max_backoff_s)

\* the retention of a photo record, timedelta(days=1) in Notifier._run
\* (1 s here)
photo_retention == 2

\* A TrackerConfig's notification criteria.  A list that is None and a list
\* that is empty are both falsy in the checks of Tracker._run, so both are
\* the empty set here; per_classification maps a classification to its own
\* minimum or to None; cel is "" when notify_track_cel is unset.
NoPerClassification == [c \in Classifications |-> None]

MkTrackerConfig(allow, block, min_len, per, cel) ==
    [notify_classification_allowlist |-> allow,
     notify_classification_blocklist |-> block,
     notify_min_track_length_s |-> min_len,
     notify_min_track_length_s_per_classification |-> per,
     notify_track_cel |-> cel]

CelIsCar == "track.classification == \"car\""
CelMalformed == "track.classification =="

\* the defaults of TrackerConfig
ConfigDefault == MkTrackerConfig({}, {}, 2, NoPerClassification, "")
\* no criteria and no minimum length
ConfigImmediate == MkTrackerConfig({}, {}, 0, NoPerClassification, "")
\* no criteria, no minimum length, but trucks need 1 s
ConfigPerClass ==
    MkTrackerConfig({}, {}, 0, [NoPerClassification EXCEPT !["truck"] = 2], "")
ConfigAllowCar == MkTrackerConfig({"car"}, {}, 1, NoPerClassification, "")
ConfigBlockTruck == MkTrackerConfig({}, {"truck"}, 1, NoPerClassification, "")
ConfigCel == MkTrackerConfig({}, {}, 1, NoPerClassification, CelIsCar)
\* a rule that is no CEL expression
ConfigMalformedCel == MkTrackerConfig({}, {}, 0, NoPerClassification, CelMalformed)

TrackerConfigs ==
    {ConfigDefault, ConfigImmediate, ConfigPerClass, ConfigAllowCar, ConfigBlockTruck,
     ConfigCel, ConfigMalformedCel}

----------------------------------------------------------------------------
(* track.TrackPrediction and track.Track *)

TrackPrediction(t, classification, is_track, box, id) ==
    [t |-> t, classification |-> classification, is_track |-> is_track,
     box |-> box, image |-> id, id |-> id]

\* Track.from_prediction
FromPrediction(p) ==
    [predictions |-> <<p>>,
     best_image |-> p.image,
     best_image_coverage |-> (p.box.bx - p.box.ax) * (p.box.by - p.box.ay),
     is_model_track |-> p.is_track,
     triggered_notification |-> FALSE,
     id |-> p.id]

FirstT(track) == track.predictions[1].t
LastT(track) == track.predictions[Len(track.predictions)].t
LastBox(track) == track.predictions[Len(track.predictions)].box

\* Track.length_t
LengthT(track) == LastT(track) - FirstT(track)

\* Track.classification.  name_votes is a dict: its keys are kept in the order
\* of their first insertion, and max(name_votes, key=name_votes.get) goes
\* through them in that order and keeps the first key with the greatest
\* count.
NameVotes(track, c) ==
    Cardinality({i \in 1..Len(track.predictions) :
                    track.predictions[i].classification = c})

FirstSeen(track, c) ==
    CHOOSE i \in 1..Len(track.predictions) :
        /\ track.predictions[i].classification = c
        /\ \A j \in 1..(i - 1) : track.predictions[j].classification # c

\* the keys of name_votes, in insertion order
RECURSIVE NameVotesKeys(_, _)
NameVotesKeys(track, i) ==
    IF i = 0 THEN <<>>
    ELSE LET keys == NameVotesKeys(track, i - 1)
             c == track.predictions[i].classification
         IN  IF \E k \in 1..Len(keys) : keys[k] = c THEN keys ELSE Append(keys, c)

\* variant: max keeps the last key with the greatest count
RECURSIVE MaxKeyLast(_, _, _)
MaxKeyLast(track, keys, i) ==
    IF i = 1 THEN keys[1]
    ELSE LET best == MaxKeyLast(track, keys, i - 1)
         IN  IF NameVotes(track, keys[i]) >= NameVotes(track, best)
             THEN keys[i] ELSE best

\* max(keys, key=name_votes.get) over the first i keys
RECURSIVE MaxKey(_, _, _)
MaxKey(track, keys, i) ==
    IF i = 1 THEN keys[1]
    ELSE LET best == MaxKey(track, keys, i - 1)
         IN  IF NameVotes(track, keys[i]) > NameVotes(track, best)
             THEN keys[i] ELSE best

Classification(track) ==
    LET keys == NameVotesKeys(track, Len(track.predictions))
    IN  MaxKey(track, keys, Len(keys))

\* Track.last_2_box_avg
Last2BoxAvg(track) ==
    IF Len(track.predictions) < 2
    THEN LastBox(track)
    ELSE AverageWith(track.predictions[Len(track.predictions) - 1].box,
                     LastBox(track))

\* variant: is_model_track follows the last prediction
AddPredictionNotSticky(track, p) ==
    LET image_coverage == (p.box.bx - p.box.ax) * (p.box.by - p.box.ay)
        better == image_coverage > track.best_image_coverage
    IN  [track EXCEPT
            !.predictions = Append(@, p),
            !.is_model_track = p.is_track,
            !.best_image = IF better THEN p.image ELSE @,
            !.best_image_coverage = IF better THEN image_coverage ELSE @]

\* variant: an equal area replaces the best image too
AddPredictionLatestBest(track, p) ==
    LET image_coverage == (p.box.bx - p.box.ax) * (p.box.by - p.box.ay)
        better == image_coverage >= track.best_image_coverage
    IN  [track EXCEPT
            !.predictions = Append(@, p),
            !.is_model_track = IF p.is_track THEN TRUE ELSE @,
            !.best_image = IF better THEN p.image ELSE @,
            !.best_image_coverage = IF better THEN image_coverage ELSE @]

\* Track.add_prediction
AddPrediction(track, p) ==
    LET image_coverage == (p.box.bx - p.box.ax) * (p.box.by - p.box.ay)
        better == image_coverage > track.best_image_coverage
    IN  [track EXCEPT
            !.predictions = Append(@, p),
            !.is_model_track = IF p.is_track THEN TRUE ELSE @,
            !.best_image = IF better THEN p.image ELSE @,
            !.best_image_coverage = IF better THEN image_coverage ELSE @]

----------------------------------------------------------------------------
(* ntfy.ObjectNotification and ntfy.FeedbackNotification.  Both travel on  *)
(* one queue, so both are records over the same fields; a field the        *)
(* variant does not have is None (or "").  jpeg_image names the frame the  *)
(* bytes were encoded from.                                                *)

ObjectNotification(t, classification, event, id, jpeg_image) ==
    [kind |-> "object", t |-> t, classification |-> classification,
     event |-> event, id |-> id, jpeg_image |-> jpeg_image,
     enriched_class |-> "", type |-> "", key |-> None, mute_seconds |-> None]

FeedbackNotification(type, key, mute_seconds) ==
    [kind |-> "feedback", t |-> None, classification |-> "", event |-> "",
     id |-> None, jpeg_image |-> None, enriched_class |-> "",
     type |-> type, key |-> key, mute_seconds |-> mute_seconds]

\* no request has written mute_until yet
NoFeedback == FeedbackNotification("", None, None)

----------------------------------------------------------------------------
(* Tracker._run: the body of its loop *)

\* variant: nothing is pruned
PruneTracksNever(ts, t) == ts

\* the live tracks that survive the pruning for an event stamped t
PruneTracks(ts, t) ==
    SelectSeq(ts, LAMBDA tr : t - LastT(tr) < inactive_track_prune_s)

\* variant: the raised requirement applied to every candidate
OverlapNeededAlwaysRaised(candidate, p) ==
    [n |-> track_connect_min_overlap.n * 3,
     d |-> track_connect_min_overlap.d * 2]

\* the overlap a candidate track needs to take the prediction p
OverlapNeeded(candidate, p) ==
    IF p.classification # Classification(candidate)
    THEN [n |-> track_connect_min_overlap.n * 3,
          d |-> track_connect_min_overlap.d * 2]
    ELSE track_connect_min_overlap

CandidateIa(candidate, p) == PercentIntersection(Last2BoxAvg(candidate), p.box)

\* The loop over self._tracks from its i-th element on: the index of the
\* track the prediction connects to, 0 when the loop ends with track = None.
\* The loop breaks at the first candidate whose overlap is enough, so the
\* comparison with an earlier choice (track is not None) is never reached.
\* variant: an overlap equal to the requirement is enough
RECURSIVE ConnectFromAtLeast(_, _, _)
ConnectFromAtLeast(ts, p, i) ==
    IF i > Len(ts)
    THEN 0
    ELSE IF ~ FracGt(OverlapNeeded(ts[i], p), CandidateIa(ts[i], p))
         THEN i
         ELSE ConnectFromAtLeast(ts, p, i + 1)

RECURSIVE ConnectFrom(_, _, _)
ConnectFrom(ts, p, i) ==
    IF i > Len(ts)
    THEN 0
    ELSE IF FracGt(CandidateIa(ts[i], p), OverlapNeeded(ts[i], p))
         THEN i
         ELSE ConnectFrom(ts, p, i + 1)

ConnectTrack(ts, p) == ConnectFrom(ts, p, 1)

\* notify_cel_program.evaluate({"track": track.to_cel()}) for the rules the
\* model configures
CelEvaluate(cel, track) ==
    IF cel = CelIsCar THEN Classification(track) = "car" ELSE FALSE

\* variant: an allowlist that is not set lets nothing through
AllowlistPassesUnsetRejects(cfg, track) ==
    Classification(track) \in cfg.notify_classification_allowlist

AllowlistPasses(cfg, track) ==
    ~ (/\ cfg.notify_classification_allowlist # {}
       /\ Classification(track) \notin cfg.notify_classification_allowlist)

BlocklistPasses(cfg, track) ==
    ~ (/\ cfg.notify_classification_blocklist # {}
       /\ Classification(track) \in cfg.notify_classification_blocklist)

\* notify_min_track_length_s_per_classification.get(classification, default)
MinTrackLen(cfg, track) ==
    LET per == cfg.notify_min_track_length_s_per_classification[Classification(track)]
    IN  IF per # None THEN per ELSE cfg.notify_min_track_length_s

\* variant: the length check left out
MinLengthPassesAlways(cfg, track) == TRUE

\* variant: a track as long as the minimum does not pass
MinLengthPassesStrict(cfg, track) == LengthT(track) > MinTrackLen(cfg, track)

MinLengthPasses(cfg, track) == ~ (LengthT(track) < MinTrackLen(cfg, track))

\* variant: the rule is not evaluated
CelPassesAlways(cfg, track) == TRUE

CelPasses(cfg, track) ==
    ~ (/\ cfg.notify_track_cel # ""
       /\ ~ CelEvaluate(cfg.notify_track_cel, track))

\* the checks between "determine whether this track now meets notification
\* criteria" and "at this point the track has met all criteria"
MeetsCriteria(cfg, track) ==
    /\ AllowlistPasses(cfg, track)
    /\ BlocklistPasses(cfg, track)
    /\ MinLengthPasses(cfg, track)
    /\ CelPasses(cfg, track)

\* variant: the check of triggered_notification left out
TriggersNotificationAgain(cfg, track) ==
    /\ track.is_model_track
    /\ MeetsCriteria(cfg, track)

\* variant: only a track's first event is evaluated
TriggersNotificationFirstEventOnly(cfg, track) ==
    /\ Len(track.predictions) = 1
    /\ track.is_model_track
    /\ ~ track.triggered_notification
    /\ MeetsCriteria(cfg, track)

\* whether the loop body reaches the put_nowait for this track
TriggersNotification(cfg, track) ==
    /\ track.is_model_track
    /\ ~ track.triggered_notification
    /\ MeetsCriteria(cfg, track)

----------------------------------------------------------------------------
(* The processes *)

\* main has not called my_exit: the children have not been terminated
Running == exit_status = None

\* variant: every record reads as a normal exit
ChildExitNormal(class_name, is_exc) == [class_name |-> class_name, is_exc |-> FALSE]

\* a ChildExit record on main.exit_queue
ChildExit(class_name, is_exc) == [class_name |-> class_name, is_exc |-> is_exc]

\* main has taken no record yet
NoChildExit == ChildExit("", FALSE)

\* time passes
Tick ==
    /\ now < MaxTime
    /\ now' = now + 1
    /\ UNCHANGED <<next_id, video, tracker_cfg, tracks_queue, tracks,
                   notifications_queue, last_notification, mute_until,
                   records, processed, web_count, web_last,
                   posts, enqueued, enrichment, notifier_exc, supervision, health,
                   attempts, serving, capture>>

\* datetime.datetime.now(datetime.UTC) is the wall clock, which the system may
\* set back (a step of the time service, a change by hand)
ClockSetBack ==
    /\ now > 0
    /\ now' = now - 1
    /\ UNCHANGED <<next_id, video, tracker_cfg, tracks_queue, tracks,
                   notifications_queue, last_notification, mute_until,
                   records, processed, web_count, web_last,
                   posts, enqueued, enrichment, notifier_exc, supervision, health,
                   attempts, serving, capture>>

\* PredModel._run_capture_loop: one box of the frame read at utcnow
PredModelPut ==
    /\ Running
    /\ pred_state = "capturing"
    /\ next_id <= video.length
    /\ Len(tracks_queue) < MaxQueue
    /\ \E b \in video.detections :
          tracks_queue' = Append(tracks_queue,
              TrackPrediction(now, b.classification, b.is_track, b.box, next_id))
    /\ next_id' = next_id + 1
    /\ frames_seen_last_run' = frames_seen_last_run + 1
    /\ UNCHANGED <<now, video, tracker_cfg, tracks, notifications_queue,
                   last_notification, mute_until, records, processed, web_count, web_last,
                   posts, enqueued, enrichment, notifier_exc, supervision, health,
                   attempts, serving, is_stream, pred_state, reconnect_delay_s>>

\* variant: the delay doubled whatever the last run read
NextReconnectDelayAlwaysDoubled(delay, frames_seen) ==
    Min2(delay * 2, reconnect_delay_max_s)

\* PredModel._run: the delay before the next attempt to open the stream
NextReconnectDelay(delay, frames_seen) ==
    IF frames_seen > 0
    THEN stream_reconnect_initial_backoff_s
    ELSE Min2(delay * 2, reconnect_delay_max_s)

\* how a run of _run_capture_loop ends: the read failed (VideoEnded), the
\* source could not be opened or read (IOError, cv2.error), or the capture
\* was no longer open and the loop returned
CaptureOutcomes == {"VideoEnded", "IOError", "returned"}

\* PredModel._run: whether the end of a run is followed by another run
PredModelRetries(stream) == stream

\* PredModel._run: the end of one run of _run_capture_loop and what the
\* except clauses and the back-off make of it
PredModelCaptureEnds ==
    /\ Running
    /\ pred_state = "capturing"
    /\ \E outcome \in CaptureOutcomes :
          IF PredModelRetries(is_stream)
          THEN /\ pred_state' = "sleeping"
               /\ reconnect_delay_s' =
                      NextReconnectDelay(reconnect_delay_s, frames_seen_last_run)
               /\ UNCHANGED <<exit_queue>>
          ELSE /\ pred_state' = IF outcome = "IOError" THEN "raised" ELSE "ended"
               /\ exit_queue' = Append(exit_queue,
                                       ChildExit("PredModel", outcome = "IOError"))
               /\ UNCHANGED reconnect_delay_s
    /\ UNCHANGED <<now, next_id, video, tracker_cfg, tracks_queue, tracks,
                   notifications_queue, last_notification, mute_until, records,
                   processed, web_count, web_last, posts, enqueued, enrichment,
                   notifier_exc, tracker_state, exit_status, exit_taken, health,
                   attempts, serving, is_stream, frames_seen_last_run>>

\* PredModel._run: time.sleep(reconnect_delay_s) is over and
\* _run_capture_loop starts again, its counters at zero
PredModelReopen ==
    /\ Running
    /\ pred_state = "sleeping"
    /\ pred_state' = "capturing"
    /\ frames_seen_last_run' = 0
    /\ last_liveness_tick_at' = None
    /\ UNCHANGED <<now, next_id, video, tracker_cfg, tracks_queue, tracks,
                   notifications_queue, last_notification, mute_until, records,
                   processed, web_count, web_last, posts, enqueued, enrichment,
                   notifier_exc, supervision, health_ping_queue,
                   last_health_ping_at, pinged, attempts, serving, is_stream,
                   reconnect_delay_s>>

\* variant: every rule compiles
CelCompilesAlways(cel) == TRUE

\* cel_env.compile(notify_track_cel) returns; it raises CELParseError on
\* an expression that is no CEL
CelCompiles(cel) == cel # CelMalformed

\* Tracker._run up to its loop: the rule, if one is set, is compiled; an
\* exception leaves _run and ChildProcess.run puts it on the exit queue
TrackerStart ==
    /\ Running
    /\ tracker_state = "starting"
    /\ IF tracker_cfg.notify_track_cel # "" /\ ~ CelCompiles(tracker_cfg.notify_track_cel)
       THEN /\ tracker_state' = "raised"
            /\ exit_queue' = Append(exit_queue, ChildExit("Tracker", TRUE))
       ELSE /\ tracker_state' = "running"
            /\ UNCHANGED exit_queue
    /\ UNCHANGED <<now, next_id, video, tracker_cfg, tracks_queue, tracks,
                   notifications_queue, last_notification, mute_until, records,
                   processed, web_count, web_last, posts, enqueued, enrichment,
                   notifier_exc, exit_status, exit_taken, health,
                   attempts, serving, capture>>

\* main: the loop on exit_queue.get(); my_exit terminates the children and
\* exits with status 1 when the child raised, 0 when it returned
MainExit ==
    /\ Running
    /\ exit_queue # <<>>
    /\ exit_status' = IF Head(exit_queue).is_exc THEN 1 ELSE 0
    /\ exit_queue' = Tail(exit_queue)
    /\ exit_taken' = Head(exit_queue)
    /\ UNCHANGED <<now, next_id, video, tracker_cfg, tracks_queue, tracks,
                   notifications_queue, last_notification, mute_until, records,
                   processed, web_count, web_last, posts, enqueued, enrichment,
                   notifier_exc, tracker_state, health,
                   attempts, serving, capture>>

\* variant: the candidate stamped with the time of the event that triggered it
CandidateForLastT(track, ok) ==
    ObjectNotification(LastT(track), Classification(track), "arrived in driveway",
                       track.id, IF ok THEN track.best_image ELSE None)

\* Tracker._run: the ObjectNotification it puts for a track that met the
\* criteria; ok is what cv2.imencode returned for the best image
CandidateFor(track, ok) ==
    ObjectNotification(FirstT(track), Classification(track), "arrived in driveway",
                       track.id, IF ok THEN track.best_image ELSE None)

\* Tracker._run: one turn of the loop
TrackerRun ==
    /\ Running
    /\ tracker_state = "running"
    /\ tracks_queue # <<>>
    /\ LET p == Head(tracks_queue)
           live == PruneTracks(tracks, p.t)
           i == ConnectTrack(live, p)
           k == IF i # 0 THEN i ELSE Len(live) + 1
           track == IF i # 0 THEN AddPrediction(live[i], p) ELSE FromPrediction(p)
           placed == IF i # 0 THEN [live EXCEPT ![i] = track] ELSE Append(live, track)
       IN  /\ tracks_queue' = Tail(tracks_queue)
           /\ IF TriggersNotification(tracker_cfg, track)
              THEN \E ok \in BOOLEAN :
                     LET n == CandidateFor(track, ok)
                     IN  /\ notifications_queue' = Append(notifications_queue, n)
                         /\ enqueued' = Append(enqueued, n)
                         /\ tracks' = [placed EXCEPT ![k].triggered_notification = TRUE]
              ELSE /\ tracks' = placed
                   /\ UNCHANGED <<notifications_queue, enqueued>>
    /\ UNCHANGED <<now, next_id, video, tracker_cfg, last_notification, mute_until,
                   records, processed, web_count, web_last,
                   posts, enrichment, notifier_exc, supervision, health,
                   attempts, serving, capture>>

----------------------------------------------------------------------------
(* Notifier *)

\* variant: muted up to and including mute_until
MuteSuppressesInclusive(n) == mute_until # None /\ n.t <= mute_until

\* variant: the mute is never looked at
MuteSuppressesNever(n) == FALSE

\* Notifier._suppress, first check: muted
MuteSuppresses(n) == mute_until # None /\ n.t < mute_until

\* variant: one last-sent time for all classifications
DebounceSuppressesAnyClass(n) ==
    \E c \in Classifications :
        /\ last_notification[c] # None
        /\ n.t - last_notification[c] < debounce_threshold_s

\* variant: a candidate stamped before the last-sent time is not debounced
DebounceSuppressesElapsed(n) ==
    LET last_ntfy == last_notification[n.classification]
    IN  /\ last_ntfy # None
        /\ n.t >= last_ntfy
        /\ n.t - last_ntfy < debounce_threshold_s

\* Notifier._suppress, second check: debounced
DebounceSuppresses(n) ==
    LET last_ntfy == last_notification[n.classification]
    IN  last_ntfy # None /\ n.t - last_ntfy < debounce_threshold_s

\* Notifier._suppress: its return value
Suppress(n) == MuteSuppresses(n) \/ DebounceSuppresses(n)

\* variant: isinstance(n, ObjectNotification) left out
SuppressedAnyKind(n) == Suppress(n)

\* Notifier._run: only an ObjectNotification is put to _suppress
Suppressed(n) == n.kind = "object" /\ Suppress(n)

\* variant: the last-sent time written for a suppressed candidate too
LastNotificationAlways(ln, n, suppressed) == [ln EXCEPT ![n.classification] = n.t]

\* variant: the last-sent time never written
LastNotificationNever(ln, n, suppressed) == ln

\* Notifier._suppress on self._last_notification: written only on the path
\* that returns False
LastNotification(ln, n, suppressed) ==
    IF suppressed THEN ln ELSE [ln EXCEPT ![n.classification] = n.t]

\* EnrichmentConfig: prompt_files is given by the classifications that have
\* a prompt file that can be read and is not empty
EnrichmentConfig(enable, prompt_files) ==
    [enable |-> enable, prompt_files |-> prompt_files]

EnrichmentDisabled == EnrichmentConfig(FALSE, {})
EnrichmentForCars == EnrichmentConfig(TRUE, {"car"})

\* What the enrichment endpoint can answer.  status: the request timed out,
\* failed, or returned; envelope: the body is no JSON, a JSON array, or a
\* JSON object; response: the envelope's "response" is missing or empty, is
\* text that is no JSON, is the JSON text of a number, or of an object with
\* the given keys; desc: the object's "desc".
EnrichmentResponse(status, envelope, response, keys, desc) ==
    [status |-> status, envelope |-> envelope, response |-> response,
     keys |-> keys, desc |-> desc]

NoResponse == EnrichmentResponse("none", "", "", {}, "")

EnrichmentResponses ==
    {EnrichmentResponse("timeout", "", "", {}, ""),
     EnrichmentResponse("error", "", "", {}, ""),
     EnrichmentResponse("ok", "not_json", "", {}, ""),
     EnrichmentResponse("ok", "array", "", {}, ""),
     EnrichmentResponse("ok", "object", "missing", {}, ""),
     EnrichmentResponse("ok", "object", "not_json", {}, ""),
     EnrichmentResponse("ok", "object", "number", {}, ""),
     EnrichmentResponse("ok", "object", "object", {}, ""),
     EnrichmentResponse("ok", "object", "object", {"error"}, ""),
     EnrichmentResponse("ok", "object", "object", {"type", "desc"}, "unknown"),
     EnrichmentResponse("ok", "object", "object", {"type", "desc"}, ""),
     EnrichmentResponse("ok", "object", "object", {"type", "desc"}, "sedan")}

\* Notifier._enrich up to requests.post: is the endpoint called?
CallsEnrichment(cfg, n) ==
    /\ cfg.enable
    /\ n.jpeg_image # None
    /\ n.classification \in cfg.prompt_files

\* the answers Notifier._enrich can get for n
EnrichmentAnswers(cfg, n) ==
    IF n.kind = "object" /\ CallsEnrichment(cfg, n)
    THEN EnrichmentResponses ELSE {NoResponse}

Returned(n) == [raised |-> FALSE, n |-> n]
Raised(n) == [raised |-> TRUE, n |-> n]

\* Notifier._enrich: what it returns, or that it raised.  resp.json() on a
\* body that is no JSON raises requests.JSONDecodeError, a RequestException;
\* parsed.get on an array raises AttributeError and `"type" not in` a number
\* raises TypeError, which nothing catches.
Enrich(cfg, n, resp) ==
    IF ~ CallsEnrichment(cfg, n) THEN Returned(n)
    ELSE IF resp.status \in {"timeout", "error"} THEN Returned(n)
    ELSE IF resp.envelope = "not_json" THEN Returned(n)
    ELSE IF resp.envelope = "array" THEN Raised(n)
    ELSE IF resp.response \in {"missing", "not_json"} THEN Returned(n)
    ELSE IF resp.response = "number" THEN Raised(n)
    ELSE IF "type" \notin resp.keys /\ "error" \notin resp.keys THEN Returned(n)
    ELSE LET model_desc == IF "desc" \in resp.keys THEN resp.desc ELSE "unknown"
         IN  IF model_desc = "unknown" \/ model_desc = ""
             THEN Returned(n)
             ELSE Returned([n EXCEPT !.enriched_class = model_desc])

\* self._records[n.id] = NtfyRecord(...)
PutRecord(recs, n) ==
    {r \in recs : r.id # n.id}
        \cup {[id |-> n.id, jpeg_image |-> n.jpeg_image,
               expires_at |-> n.t + photo_retention]}

\* variant: a record stored for every Object candidate
StoredRecordsAlways(recs, n, suppressed) == PutRecord(recs, n)

\* Notifier._run on self._records: `continue` when suppressed, else the
\* record of n is stored
StoredRecords(recs, n, suppressed) ==
    IF suppressed THEN recs ELSE PutRecord(recs, n)

\* variant: entries are pruned a tick before they expire
PrunePhotosCacheEarly(recs, utcnow) == {r \in recs : ~ (r.expires_at <= utcnow + 1)}

\* Notifier._prune_photos_cache at utcnow
PrunePhotosCache(recs, utcnow) == {r \in recs : ~ (r.expires_at < utcnow)}

\* variant: a second attempt
PostTwice(ps, n) == Append(Append(ps, n), n)

\* requests.post of n to the ntfy server: one attempt
Post(ps, n) == Append(ps, n)

\* variant: the newest notification on the queue
NextCandidateNewest(q) == q[Len(q)]

\* self._input_queue.get()
NextCandidate(q) == Head(q)

\* variant: the key left out of the body
NtfyMuteActionBlobNoKey(seconds, key) ==
    LET t_str == IF seconds >= 3600
                 THEN IF (seconds % 3600) \div 60 = 0
                      THEN <<seconds \div 3600, "h">>
                      ELSE <<seconds \div 3600, "h", (seconds % 3600) \div 60, "m">>
                 ELSE <<seconds \div 60, "m">>
    IN  [label |-> IF seconds = 0 THEN <<"Unmute">> ELSE <<"Mute">> \o t_str,
         s |-> seconds, key |-> None]

\* Notifier._ntfy_mute_action_blob: the label of the action and the two
\* fields of the JSON body it sends to /mute.  The label is kept as its
\* words: <<"Mute", 1, "h", 30, "m">> is "Mute 1h 30m".
NtfyMuteActionBlob(seconds, key) ==
    LET t_str == IF seconds >= 3600
                 THEN IF (seconds % 3600) \div 60 = 0
                      THEN <<seconds \div 3600, "h">>
                      ELSE <<seconds \div 3600, "h", (seconds % 3600) \div 60, "m">>
                 ELSE <<seconds \div 60, "m">>
    IN  [label |-> IF seconds = 0 THEN <<"Unmute">> ELSE <<"Mute">> \o t_str,
         s |-> seconds, key |-> key]

\* Notifier._prep_ntfy_headers: the Actions header
PrepNtfyActions(n) ==
    IF n.kind = "object"
    THEN <<NtfyMuteActionBlob(10 * 60, n.id), NtfyMuteActionBlob(60 * 60, n.id),
           NtfyMuteActionBlob(4 * 60 * 60, n.id)>>
    ELSE IF n.type = "muted"
    THEN IF n.mute_seconds # None /\ n.mute_seconds > 60 * 60
         THEN <<NtfyMuteActionBlob(0, n.key)>>
         ELSE <<NtfyMuteActionBlob(0, n.key), NtfyMuteActionBlob(4 * 60 * 60, n.key),
                NtfyMuteActionBlob(12 * 60 * 60, n.key)>>
    ELSE <<NtfyMuteActionBlob(10 * 60, n.key), NtfyMuteActionBlob(60 * 60, n.key),
           NtfyMuteActionBlob(4 * 60 * 60, n.key)>>

\* a call of requests.post: the Actions header it sends, and the ids in the
\* photo cache at that moment
Attempt(n, recs) ==
    [id |-> n.id, kind |-> n.kind, actions |-> PrepNtfyActions(n),
     cached |-> {r.id : r \in recs}]

\* what the Notifier did with a candidate: result is "muted" or "debounced"
\* when _suppress returned True, "raised" when _enrich raised, "sent" when
\* requests.post returned and "error" when it raised a RequestException
Processed(n, result) == [n |-> n, result |-> result, mute |-> mute_until]

\* variant: a RequestException of the POST leaves Notifier._run
PostExceptionEscapesOnError(result) == result = "error"

\* `except requests.RequestException` around requests.post: the exception
\* is logged and goes no further
PostExceptionEscapes(result) == FALSE

\* ChildProcess.run of the Notifier: an exception that leaves _run ends the
\* process and is put on the exit queue
NotifierExits(exc) ==
    /\ notifier_exc' = exc
    /\ exit_queue' = IF exc THEN Append(exit_queue, ChildExit("Notifier", TRUE))
                     ELSE exit_queue

\* Notifier._run: one turn of the loop
NotifierRun ==
    /\ Running
    /\ ~ notifier_exc
    /\ notifications_queue # <<>>
    /\ LET n == NextCandidate(notifications_queue)
       IN  /\ notifications_queue' = Tail(notifications_queue)
           /\ IF Suppressed(n)
              THEN /\ processed' = Append(processed,
                        Processed(n, IF MuteSuppresses(n) THEN "muted" ELSE "debounced"))
                   /\ last_notification' = LastNotification(last_notification, n, TRUE)
                   /\ records' = StoredRecords(records, n, TRUE)
                   /\ NotifierExits(FALSE)
                   /\ UNCHANGED <<posts, attempts>>
              ELSE IF n.kind = "object"
              THEN /\ last_notification' = LastNotification(last_notification, n, FALSE)
                   /\ \E resp \in EnrichmentAnswers(enrichment, n) :
                        LET e == Enrich(enrichment, n, resp)
                        IN  IF e.raised
                            THEN /\ records' = StoredRecords(records, n, FALSE)
                                 /\ processed' = Append(processed, Processed(n, "raised"))
                                 /\ NotifierExits(TRUE)
                                 /\ UNCHANGED <<posts, attempts>>
                            ELSE /\ records' = PrunePhotosCache(
                                        StoredRecords(records, n, FALSE), now)
                                 /\ posts' = Post(posts, e.n)
                                 /\ attempts' = Append(attempts,
                                        Attempt(e.n, StoredRecords(records, n, FALSE)))
                                 /\ \E result \in {"sent", "error"} :
                                      /\ processed' = Append(processed,
                                                          Processed(e.n, result))
                                      /\ NotifierExits(PostExceptionEscapes(result))
              ELSE /\ records' = PrunePhotosCache(records, now)
                   /\ posts' = Post(posts, n)
                   /\ attempts' = Append(attempts, Attempt(n, records))
                   /\ \E result \in {"sent", "error"} :
                        /\ processed' = Append(processed, Processed(n, result))
                        /\ NotifierExits(PostExceptionEscapes(result))
                   /\ UNCHANGED last_notification
    /\ UNCHANGED <<now, next_id, video, tracker_cfg, tracks_queue, tracks, mute_until,
                   web_count, web_last, enqueued, enrichment, tracker_state,
                   exit_status, exit_taken, health, serving, capture>>

----------------------------------------------------------------------------
(* PredModel's liveness tick and the HealthPinger *)

\* ModelConfig.liveness_tick_s (default 30 s; 0.5 s here)
liveness_tick_s == 1

\* ModelConfig.healthcheck_ping_url, set
healthcheck_ping_url == "https://hc.example/ping"

HealthPing(url, at_t) == [url |-> url, at_t |-> at_t]

\* PredModel._run_capture_loop, after the boxes of a frame: the liveness tick
PredModelLivenessTick ==
    /\ Running
    /\ pred_state = "capturing"
    /\ \/ last_liveness_tick_at = None
       \/ now - last_liveness_tick_at > liveness_tick_s
    /\ last_liveness_tick_at' = now
    /\ health_ping_queue' = Append(health_ping_queue,
                                   HealthPing(healthcheck_ping_url, now))
    /\ UNCHANGED <<now, next_id, video, tracker_cfg, tracks_queue, tracks,
                   notifications_queue, last_notification, mute_until, records,
                   processed, web_count, web_last, posts, enqueued, enrichment,
                   notifier_exc, supervision, last_health_ping_at, pinged,
                   attempts, serving, capture>>

\* what the HealthPinger did with a ping: "skipped" when it has no url, "ok"
\* when requests.get returned, "error" when it raised a RequestException
Pinged(p, result) == [p |-> p, result |-> result]

\* HealthPinger._run: one turn of the loop
HealthPingerRun ==
    /\ Running
    /\ health_ping_queue # <<>>
    /\ LET p == Head(health_ping_queue)
       IN  /\ health_ping_queue' = Tail(health_ping_queue)
           /\ last_health_ping_at' = p.at_t
           /\ IF p.url = ""
              THEN pinged' = Append(pinged, Pinged(p, "skipped"))
              ELSE \E result \in {"ok", "error"} :
                      pinged' = Append(pinged, Pinged(p, result))
    /\ UNCHANGED <<now, next_id, video, tracker_cfg, tracks_queue, tracks,
                   notifications_queue, last_notification, mute_until, records,
                   processed, web_count, web_last, posts, enqueued, enrichment,
                   notifier_exc, supervision, last_liveness_tick_at,
                   attempts, serving, capture>>

----------------------------------------------------------------------------
(* WebServer: POST /mute and GET /photo/<fname> *)

\* the JSON bodies the model sends: key is None when the field is missing;
\* s is an integer, or missing, or a string that is no number, or a number
\* with a fraction (v counts halves: FloatS(3) is 1.5), or an array
IntS(v) == [kind |-> "int", v |-> v]
MissingS == [kind |-> "missing", v |-> 0]
TextS == [kind |-> "text", v |-> 0]
FloatS(v) == [kind |-> "float", v |-> v]
ListS == [kind |-> "list", v |-> 0]

MuteKeys == {None} \cup (1..video.length)
MuteSeconds == {IntS(0), IntS(1), MissingS, TextS, FloatS(3), ListS}

\* int(secs): the integer itself; a float cut off towards zero; ValueError
\* for text that is no number; TypeError for an array
IntOf(s) ==
    IF s.kind = "int" THEN [raised |-> "", v |-> s.v]
    ELSE IF s.kind = "float"
         THEN [raised |-> "", v |-> IF s.v >= 0 THEN s.v \div 2 ELSE -((-s.v) \div 2)]
    ELSE IF s.kind = "text" THEN [raised |-> "ValueError", v |-> 0]
    ELSE [raised |-> "TypeError", v |-> 0]

\* variant: the window counted from 0 instead of from the request
MuteUntilFromZero(utcnow, secs) == IF secs < 1 THEN utcnow ELSE TicksPerSecond * secs

\* WebServer._run.mute: the mute_until it writes
MuteUntilFor(utcnow, secs) ==
    IF secs < 1 THEN utcnow ELSE utcnow + TicksPerSecond * secs

\* WebServer._run.mute: the notification it queues
RespNtfy(key, secs) ==
    IF secs < 1 THEN FeedbackNotification("unmuted", key, None)
    ELSE FeedbackNotification("muted", key, secs)

\* a request to POST /mute and the status of its response
WebResponse(key, s, status) ==
    [route |-> "mute", key |-> key, s |-> s, status |-> status, body |-> None,
     content_type |-> "application/json"]

\* a request to GET /photo/<key><ext> and its response; body names the frame
\* whose JPEG bytes are returned, None when the response is an error
PhotoResponse(key, ext, status, body) ==
    [route |-> "photo", key |-> key, s |-> [kind |-> ext, v |-> 0],
     status |-> status, body |-> body,
     content_type |-> IF status = 200 THEN "image/jpeg" ELSE "application/json"]

PhotoKeys == 1..video.length
PhotoExtensions == {".jpg", ".png"}

\* WebServer._run.mute
WebMute ==
    /\ Running
    /\ web_count < MaxRequests
    /\ web_count' = web_count + 1
    /\ \E key \in MuteKeys, s \in MuteSeconds :
          IF key = None \/ key \notin {r.id : r \in records}
          THEN /\ web_last' = WebResponse(key, s, 403)
               /\ UNCHANGED <<mute_until, mute_writer, notifications_queue, enqueued>>
          ELSE IF s.kind = "missing" \/ IntOf(s).raised = "ValueError"
          THEN /\ web_last' = WebResponse(key, s, 400)
               /\ UNCHANGED <<mute_until, mute_writer, notifications_queue, enqueued>>
          ELSE IF IntOf(s).raised = "TypeError"
          THEN \* nothing catches it: the framework answers 500
               /\ web_last' = WebResponse(key, s, 500)
               /\ UNCHANGED <<mute_until, mute_writer, notifications_queue, enqueued>>
          ELSE /\ web_last' = WebResponse(key, s, 200)
               /\ LET secs == IntOf(s).v
                      resp_ntfy == RespNtfy(key, secs)
                  IN  /\ mute_until' = MuteUntilFor(now, secs)
                      /\ mute_writer' = resp_ntfy
                      /\ notifications_queue' = Append(notifications_queue, resp_ntfy)
                      /\ enqueued' = Append(enqueued, resp_ntfy)
    /\ UNCHANGED <<now, next_id, video, tracker_cfg, tracks_queue, tracks,
                   last_notification, records, processed, posts, enrichment,
                   notifier_exc, supervision, health,
                   attempts, web_pending, capture>>

\* waitress serves the application with a pool of threads: two requests to
\* /mute can be in the handler at once.  The handler touches the shared state
\* twice, at self._ntfy_share_ns.mute_until = mute_until and at
\* self._ntfy_queue.put_nowait(resp_ntfy); a thread can be overtaken between
\* the two.
WebThreads == 1..MaxThreads

\* a request that has written mute_until and has not yet put its feedback
Pending(th, key, s, resp_ntfy) ==
    [th |-> th, key |-> key, s |-> s, resp_ntfy |-> resp_ntfy]

\* WebServer._run.mute in thread th, up to the write of mute_until; a request
\* that is rejected is answered here
WebMuteWrite(th) ==
    /\ Running
    /\ web_count < MaxThreads
    /\ \A p \in web_pending : p.th # th
    /\ web_count' = web_count + 1
    /\ \E key \in MuteKeys, s \in MuteSeconds :
          IF key = None \/ key \notin {r.id : r \in records}
          THEN /\ web_last' = WebResponse(key, s, 403)
               /\ UNCHANGED <<mute_until, serving>>
          ELSE IF s.kind = "missing" \/ IntOf(s).raised = "ValueError"
          THEN /\ web_last' = WebResponse(key, s, 400)
               /\ UNCHANGED <<mute_until, serving>>
          ELSE IF IntOf(s).raised = "TypeError"
          THEN /\ web_last' = WebResponse(key, s, 500)
               /\ UNCHANGED <<mute_until, serving>>
          ELSE LET secs == IntOf(s).v
                   resp_ntfy == RespNtfy(key, secs)
               IN  /\ mute_until' = MuteUntilFor(now, secs)
                   /\ mute_writer' = resp_ntfy
                   /\ web_pending' = web_pending \cup {Pending(th, key, s, resp_ntfy)}
                   /\ UNCHANGED web_last
    /\ UNCHANGED <<now, next_id, video, tracker_cfg, tracks_queue, tracks,
                   notifications_queue, enqueued,
                   last_notification, records, processed, posts, enrichment,
                   notifier_exc, supervision, health, attempts, capture>>

\* WebServer._run.mute in thread th, from the put of the feedback to the
\* response
WebMutePut(th) ==
    /\ Running
    /\ \E p \in web_pending :
          /\ p.th = th
          /\ notifications_queue' = Append(notifications_queue, p.resp_ntfy)
          /\ enqueued' = Append(enqueued, p.resp_ntfy)
          /\ web_last' = WebResponse(p.key, p.s, 200)
          /\ web_pending' = web_pending \ {p}
    /\ UNCHANGED <<now, next_id, video, tracker_cfg, tracks_queue, tracks,
                   mute_until, mute_writer, web_count,
                   last_notification, records, processed, posts, enrichment,
                   notifier_exc, supervision, health, attempts, capture>>

\* WebServer._run.photo
WebPhoto ==
    /\ Running
    /\ web_count < MaxRequests
    /\ web_count' = web_count + 1
    /\ \E key \in PhotoKeys, ext \in PhotoExtensions :
          LET found == {r \in records : r.id = key}
          IN  IF ext # ".jpg"
              THEN web_last' = PhotoResponse(key, ext, 400, None)
              ELSE IF found = {}
              THEN web_last' = PhotoResponse(key, ext, 404, None)
              ELSE LET photo_rec == CHOOSE r \in found : TRUE
                   IN  IF photo_rec.jpeg_image = None
                       THEN web_last' = PhotoResponse(key, ext, 404, None)
                       ELSE web_last' = PhotoResponse(key, ext, 200, photo_rec.jpeg_image)
    /\ UNCHANGED <<now, next_id, video, tracker_cfg, tracks_queue, tracks,
                   notifications_queue, last_notification, mute_until, records,
                   processed, posts, enqueued, enrichment, notifier_exc,
                   supervision, health,
                   attempts, serving, capture>>

----------------------------------------------------------------------------

\* The whole program, on a video of confirmed detections and with a
\* TrackerConfig that sets no criteria
Init ==
    /\ now = 0
    /\ next_id = 1
    /\ video = Video(ConfirmedDetections, MaxArrivals)
    /\ tracker_cfg = ConfigImmediate
    /\ tracks_queue = <<>>
    /\ tracks = <<>>
    /\ notifications_queue = <<>>
    /\ last_notification = [c \in Classifications |-> None]
    /\ mute_until = None
    /\ records = {}
    /\ processed = <<>>
    /\ web_count = 0
    /\ web_last = WebResponse(None, MissingS, 0)
    /\ posts = <<>>
    /\ enqueued = <<>>
    /\ enrichment = EnrichmentDisabled
    /\ notifier_exc = FALSE
    /\ tracker_state = "starting"
    /\ exit_queue = <<>>
    /\ exit_status = None
    /\ health_ping_queue = <<>>
    /\ last_liveness_tick_at = None
    /\ last_health_ping_at = None
    /\ pinged = <<>>
    /\ exit_taken = NoChildExit
    /\ web_pending = {}
    /\ mute_writer = NoFeedback
    /\ attempts = <<>>
    /\ is_stream = TRUE
    /\ pred_state = "capturing"
    /\ reconnect_delay_s = ReconnectDelayInit
    /\ frames_seen_last_run = 0

Next ==
    \/ Tick
    \/ PredModelPut
    \/ TrackerStart
    \/ TrackerRun
    \/ NotifierRun
    \/ WebMute
    \/ WebPhoto

Spec == Init /\ [][Next]_vars

\* The detection source and the Tracker alone, under every TrackerConfig of
\* the model; the candidates stay on the notifications queue
InitTracker ==
    /\ now = 0
    /\ next_id = 1
    /\ video = Video(Detections, MaxEvents)
    /\ tracker_cfg \in TrackerConfigs
    /\ tracks_queue = <<>>
    /\ tracks = <<>>
    /\ notifications_queue = <<>>
    /\ last_notification = [c \in Classifications |-> None]
    /\ mute_until = None
    /\ records = {}
    /\ processed = <<>>
    /\ web_count = 0
    /\ web_last = WebResponse(None, MissingS, 0)
    /\ posts = <<>>
    /\ enqueued = <<>>
    /\ enrichment = EnrichmentDisabled
    /\ notifier_exc = FALSE
    /\ tracker_state = "starting"
    /\ exit_queue = <<>>
    /\ exit_status = None
    /\ health_ping_queue = <<>>
    /\ last_liveness_tick_at = None
    /\ last_health_ping_at = None
    /\ pinged = <<>>
    /\ exit_taken = NoChildExit
    /\ web_pending = {}
    /\ mute_writer = NoFeedback
    /\ attempts = <<>>
    /\ is_stream = TRUE
    /\ pred_state = "capturing"
    /\ reconnect_delay_s = ReconnectDelayInit
    /\ frames_seen_last_run = 0

NextTracker ==
    \/ Tick
    \/ PredModelPut
    \/ TrackerStart
    \/ TrackerRun
    \/ MainExit

SpecTracker == InitTracker /\ [][NextTracker]_vars

\* The same with the scheduling of start-up and of main's loop: the Tracker
\* process, once started, runs the head of _run, and main blocks on the get()
\* of the exit queue and runs when a child has reported.
SpecTrackerFair ==
    /\ InitTracker
    /\ [][NextTracker]_vars
    /\ WF_vars(TrackerStart)
    /\ WF_vars(MainExit)

\* The detection source, the Tracker and the Notifier with enrichment
\* enabled for cars, on a longer video and without control requests
InitNotifier ==
    /\ now = 0
    /\ next_id = 1
    /\ video = Video(LateDetections, MaxEvents)
    /\ tracker_cfg = ConfigImmediate
    /\ tracks_queue = <<>>
    /\ tracks = <<>>
    /\ notifications_queue = <<>>
    /\ last_notification = [c \in Classifications |-> None]
    /\ mute_until = None
    /\ records = {}
    /\ processed = <<>>
    /\ web_count = 0
    /\ web_last = WebResponse(None, MissingS, 0)
    /\ posts = <<>>
    /\ enqueued = <<>>
    /\ enrichment = EnrichmentForCars
    /\ notifier_exc = FALSE
    /\ tracker_state = "starting"
    /\ exit_queue = <<>>
    /\ exit_status = None
    /\ health_ping_queue = <<>>
    /\ last_liveness_tick_at = None
    /\ last_health_ping_at = None
    /\ pinged = <<>>
    /\ exit_taken = NoChildExit
    /\ web_pending = {}
    /\ mute_writer = NoFeedback
    /\ attempts = <<>>
    /\ is_stream = TRUE
    /\ pred_state = "capturing"
    /\ reconnect_delay_s = ReconnectDelayInit
    /\ frames_seen_last_run = 0

NextNotifier ==
    \/ Tick
    \/ PredModelPut
    \/ TrackerStart
    \/ TrackerRun
    \/ NotifierRun
    \/ MainExit

SpecNotifier == InitNotifier /\ [][NextNotifier]_vars

\* The detection source and the Tracker with a wall clock that can be set
\* back between two frames
NextWallClock ==
    \/ Tick
    \/ ClockSetBack
    \/ PredModelPut
    \/ TrackerStart
    \/ TrackerRun
    \/ MainExit

SpecWallClock == InitTracker /\ [][NextWallClock]_vars

\* The whole pipeline with the health pings and without control requests.
\* The Notifier and the HealthPinger each block on the get() of their queue
\* and run when there is something to take: weak fairness of their steps.
\* Nothing is assumed of how often the producers run.
InitFair ==
    /\ now = 0
    /\ next_id = 1
    /\ video = Video(CarDetections, MaxArrivals)
    /\ tracker_cfg = ConfigImmediate
    /\ tracks_queue = <<>>
    /\ tracks = <<>>
    /\ notifications_queue = <<>>
    /\ last_notification = [c \in Classifications |-> None]
    /\ mute_until = None
    /\ records = {}
    /\ processed = <<>>
    /\ web_count = 0
    /\ web_last = WebResponse(None, MissingS, 0)
    /\ posts = <<>>
    /\ enqueued = <<>>
    /\ enrichment = EnrichmentDisabled
    /\ notifier_exc = FALSE
    /\ tracker_state = "starting"
    /\ exit_queue = <<>>
    /\ exit_status = None
    /\ health_ping_queue = <<>>
    /\ last_liveness_tick_at = None
    /\ last_health_ping_at = None
    /\ pinged = <<>>
    /\ exit_taken = NoChildExit
    /\ web_pending = {}
    /\ mute_writer = NoFeedback
    /\ attempts = <<>>
    /\ is_stream = TRUE
    /\ pred_state = "capturing"
    /\ reconnect_delay_s = ReconnectDelayInit
    /\ frames_seen_last_run = 0

NextFair ==
    \/ Tick
    \/ PredModelPut
    \/ PredModelLivenessTick
    \/ TrackerStart
    \/ TrackerRun
    \/ NotifierRun
    \/ HealthPingerRun

SpecFair ==
    /\ InitFair
    /\ [][NextFair]_vars
    /\ WF_vars(NotifierRun)
    /\ WF_vars(HealthPingerRun)

\* The pipeline with a control server whose threads can overtake each other
\* inside the mute handler
InitWebThreads ==
    /\ now = 0
    /\ next_id = 1
    /\ video = Video({Detection("car", TRUE, BoxLeft)}, MaxArrivals)
    /\ tracker_cfg = ConfigImmediate
    /\ tracks_queue = <<>>
    /\ tracks = <<>>
    /\ notifications_queue = <<>>
    /\ last_notification = [c \in Classifications |-> None]
    /\ mute_until = None
    /\ records = {}
    /\ processed = <<>>
    /\ web_count = 0
    /\ web_last = WebResponse(None, MissingS, 0)
    /\ posts = <<>>
    /\ enqueued = <<>>
    /\ enrichment = EnrichmentDisabled
    /\ notifier_exc = FALSE
    /\ tracker_state = "starting"
    /\ exit_queue = <<>>
    /\ exit_status = None
    /\ health_ping_queue = <<>>
    /\ last_liveness_tick_at = None
    /\ last_health_ping_at = None
    /\ pinged = <<>>
    /\ exit_taken = NoChildExit
    /\ web_pending = {}
    /\ mute_writer = NoFeedback
    /\ attempts = <<>>
    /\ is_stream = TRUE
    /\ pred_state = "capturing"
    /\ reconnect_delay_s = ReconnectDelayInit
    /\ frames_seen_last_run = 0

NextWebThreads ==
    \/ Tick
    \/ PredModelPut
    \/ TrackerStart
    \/ TrackerRun
    \/ NotifierRun
    \/ \E th \in WebThreads : WebMuteWrite(th)
    \/ \E th \in WebThreads : WebMutePut(th)

SpecWebThreads == InitWebThreads /\ [][NextWebThreads]_vars

\* The detection source with its reconnect loop, the Tracker and main's loop
\* on the exit queue, for a stream and for a file.  time.sleep returns, and
\* main blocks on the get() of the exit queue and runs when a child has
\* reported: weak fairness of the two steps.
InitCapture ==
    /\ now = 0
    /\ next_id = 1
    /\ video = Video(CarDetections, MaxArrivals)
    /\ tracker_cfg \in {ConfigImmediate, ConfigMalformedCel}
    /\ tracks_queue = <<>>
    /\ tracks = <<>>
    /\ notifications_queue = <<>>
    /\ last_notification = [c \in Classifications |-> None]
    /\ mute_until = None
    /\ records = {}
    /\ processed = <<>>
    /\ web_count = 0
    /\ web_last = WebResponse(None, MissingS, 0)
    /\ posts = <<>>
    /\ enqueued = <<>>
    /\ enrichment = EnrichmentDisabled
    /\ notifier_exc = FALSE
    /\ tracker_state = "starting"
    /\ exit_queue = <<>>
    /\ exit_status = None
    /\ health_ping_queue = <<>>
    /\ last_liveness_tick_at = None
    /\ last_health_ping_at = None
    /\ pinged = <<>>
    /\ exit_taken = NoChildExit
    /\ web_pending = {}
    /\ mute_writer = NoFeedback
    /\ attempts = <<>>
    /\ is_stream \in BOOLEAN
    /\ pred_state = "capturing"
    /\ reconnect_delay_s = ReconnectDelayInit
    /\ frames_seen_last_run = 0

NextCapture ==
    \/ Tick
    \/ PredModelPut
    \/ PredModelCaptureEnds
    \/ PredModelReopen
    \/ TrackerStart
    \/ TrackerRun
    \/ MainExit

SpecCapture ==
    /\ InitCapture
    /\ [][NextCapture]_vars
    /\ WF_vars(PredModelReopen)
    /\ WF_vars(MainExit)

----------------------------------------------------------------------------
(* Properties of the Tracker (SpecTracker) *)

\* A step of TrackerRun: only the Tracker takes from tracks_queue
TrackerStep == tracks_queue # <<>> /\ tracks_queue' = Tail(tracks_queue)

IdsOf(ts) == {ts[i].id : i \in 1..Len(ts)}
TrackWithId(ts, id) == ts[CHOOSE i \in 1..Len(ts) : ts[i].id = id]

\* C1: at most one ObjectNotification is ever put on the output queue for a
\* track id, whatever events are appended to the track afterwards.  (Under
\* SpecTracker nothing takes from notifications_queue, so it holds every
\* candidate ever put.)
C1_AtMostOneCandidatePerTrack ==
    \A i, j \in 1..Len(notifications_queue) :
        notifications_queue[i].id = notifications_queue[j].id => i = j

\* C1, witness: a track that notified on its first event and had two more
\* events appended, with its one candidate on the queue
C1_Witness ==
    \E i \in 1..Len(tracks) :
        /\ tracks[i].triggered_notification
        /\ Len(tracks[i].predictions) = 3
        /\ tracks[i].predictions[1].is_track
        /\ tracker_cfg = ConfigPerClass
        /\ Classification(tracks[i]) = "car"
        /\ \E k \in 1..Len(notifications_queue) :
              notifications_queue[k].id = tracks[i].id

\* C5 as claimed: an event that qualifies against several live tracks is
\* appended to the one with the greatest intersection, the earlier-created
\* one on a tie.
C5_GreatestOverlapWins ==
    [][TrackerStep =>
        LET p == Head(tracks_queue)
            live == SelectSeq(tracks,
                        LAMBDA tr : p.t - LastT(tr) < inactive_track_prune_s)
            ia(i) == PercentIntersection(Last2BoxAvg(live[i]), p.box)
            needed(i) == IF p.classification # Classification(live[i])
                         THEN [n |-> track_connect_min_overlap.n * 3,
                               d |-> track_connect_min_overlap.d * 2]
                         ELSE track_connect_min_overlap
            qualifying == {i \in 1..Len(live) : FracGt(ia(i), needed(i))}
        IN  \A best \in qualifying :
                (\A j \in qualifying :
                    \/ FracGt(ia(best), ia(j))
                    \/ (~ FracGt(ia(j), ia(best)) /\ best <= j))
                => /\ Len(tracks') = Len(live)
                   /\ tracks'[best].predictions
                        = Append(live[best].predictions, p)]_vars

\* C6: an event stamped more than inactive_track_prune_s after the last event
\* of every live track starts a new track, and that track is then the only
\* live one, whatever its box.
C6_GapForcesNewTrack ==
    [][(/\ TrackerStep
        /\ tracks # <<>>
        /\ \A i \in 1..Len(tracks) :
              Head(tracks_queue).t - LastT(tracks[i]) > inactive_track_prune_s)
       => /\ Len(tracks') = 1
          /\ tracks'[1].predictions = <<Head(tracks_queue)>>
          /\ tracks'[1].id = Head(tracks_queue).id]_vars

\* C6, witness: the track of the first event (a car seen at 0, which notified
\* at once) is gone, and the second event, in the same box at 3, is alone in
\* a new track
C6_Witness ==
    /\ Len(tracks) = 1
    /\ tracks[1].id = 2
    /\ Len(tracks[1].predictions) = 1
    /\ tracks[1].predictions[1].t = 3
    /\ tracks[1].predictions[1].box = BoxLeft
    /\ \E k \in 1..Len(notifications_queue) :
          /\ notifications_queue[k].id = 1
          /\ notifications_queue[k].t = 0

\* C7: with one live track, an event of the track's classification that comes
\* less than inactive_track_prune_s after its last event and overlaps the
\* average of its last two boxes by more than track_connect_min_overlap is
\* appended to it, and it stays the only live track.
C7_StreamCollapsesIntoOneTrack ==
    [][(/\ TrackerStep
        /\ Len(tracks) = 1
        /\ Head(tracks_queue).t - LastT(tracks[1]) < inactive_track_prune_s
        /\ Head(tracks_queue).classification = Classification(tracks[1])
        /\ FracGt(PercentIntersection(Last2BoxAvg(tracks[1]),
                                      Head(tracks_queue).box),
                  track_connect_min_overlap))
       => /\ Len(tracks') = 1
          /\ tracks'[1].id = tracks[1].id
          /\ tracks'[1].predictions
                = Append(tracks[1].predictions, Head(tracks_queue))]_vars

\* C7, witness: the three events of the video, a car moving from BoxLeft to
\* BoxMid, in one track in their order of arrival
C7_Witness ==
    /\ Len(tracks) = 1
    /\ Len(tracks[1].predictions) = 3
    /\ \A k \in 1..3 : tracks[1].predictions[k].id = k
    /\ tracks[1].predictions[1].box = BoxLeft
    /\ tracks[1].predictions[2].box = BoxMid
    /\ tracks[1].predictions[3].box = BoxMid
    /\ tracks[1].predictions[3].t = 2

\* C8 as claimed: the prune step removes a live track exactly when the
\* incoming event is stamped more than inactive_track_prune_s after the
\* track's last event; a track that is exactly that old stays live.
C8_PrunedIffStrictlyOlder ==
    [][TrackerStep =>
        \A i \in 1..Len(tracks) :
            (tracks[i].id \in IdsOf(tracks'))
            <=> ~ (Head(tracks_queue).t - LastT(tracks[i])
                        > inactive_track_prune_s)]_vars

\* C9: is_model_track and triggered_notification of a live track never go
\* back to false, and is_model_track is true exactly when one of the track's
\* events had is_track = true.
C9_TrackStateMovesForward ==
    [][/\ \A id \in IdsOf(tracks) \cap IdsOf(tracks') :
            /\ TrackWithId(tracks, id).is_model_track
                  => TrackWithId(tracks', id).is_model_track
            /\ TrackWithId(tracks, id).triggered_notification
                  => TrackWithId(tracks', id).triggered_notification
       /\ \A i \in 1..Len(tracks') :
            tracks'[i].is_model_track
            <=> \E k \in 1..Len(tracks'[i].predictions) :
                    tracks'[i].predictions[k].is_track]_vars

\* C9, witness: a confirmed and notified track whose latest event was not a
\* track for the detector
C9_Witness ==
    \E i \in 1..Len(tracks) :
        /\ Len(tracks[i].predictions) >= 2
        /\ tracks[i].predictions[1].is_track
        /\ ~ tracks[i].predictions[Len(tracks[i].predictions)].is_track
        /\ tracks[i].is_model_track
        /\ tracks[i].triggered_notification

\* C10: when a track's triggered_notification becomes true, the track as it
\* then is is confirmed, its majority classification is in the allowlist (if
\* one is set and not empty) and not in the blocklist, its length is at least
\* the minimum for its classification, and the rule (if set) is true of it.
C10_NotifiedPassedCriteria ==
    [][\A i \in 1..Len(tracks') :
        (/\ tracks'[i].triggered_notification
         /\ ~ \E j \in 1..Len(tracks) :
                /\ tracks[j].id = tracks'[i].id
                /\ tracks[j].triggered_notification)
        => LET tr == tracks'[i]
               c == Classification(tr)
               per == tracker_cfg.notify_min_track_length_s_per_classification[c]
               minimum == IF per # None THEN per
                          ELSE tracker_cfg.notify_min_track_length_s
           IN  /\ tr.is_model_track
               /\ \/ tracker_cfg.notify_classification_allowlist = {}
                  \/ c \in tracker_cfg.notify_classification_allowlist
               /\ c \notin tracker_cfg.notify_classification_blocklist
               /\ LastT(tr) - FirstT(tr) >= minimum
               /\ tracker_cfg.notify_track_cel = CelIsCar => c = "car"]_vars

\* C10, witness: under the default configuration, a notified track that is
\* 1 s long
C10_Witness ==
    /\ tracker_cfg = ConfigDefault
    /\ \E i \in 1..Len(tracks) :
          /\ tracks[i].triggered_notification
          /\ LengthT(tracks[i]) = 2

----------------------------------------------------------------------------
(* Properties of the Notifier and the control server (Spec) *)

Delivered(e) == e.result \in {"sent", "error"}

\* the last candidate of classification c, before the k-th processed one,
\* that _suppress let through (0 if none): its t is what
\* _last_notification[c] held when the k-th was processed
LastPassedBefore(k, c) ==
    LET passed == {j \in 1..(k - 1) :
                      /\ processed[j].n.kind = "object"
                      /\ processed[j].n.classification = c
                      /\ Delivered(processed[j])}
    IN  IF passed = {} THEN 0
        ELSE CHOOSE j \in passed : \A m \in passed : m <= j

WithinDebounce(k) ==
    LET j == LastPassedBefore(k, processed[k].n.classification)
    IN  j # 0 /\ processed[k].n.t - processed[j].n.t < debounce_threshold_s

ObjectEntries == {k \in 1..Len(processed) : processed[k].n.kind = "object"}

\* C2: two candidates of one classification that were both not suppressed
\* are at least debounce_threshold_s apart; a candidate is debounced only
\* against a candidate of its own classification; and an unmuted candidate is
\* debounced exactly when it is less than debounce_threshold_s after the last
\* one of its classification that was let through, and gets its delivery
\* attempt otherwise.
C2_Debounce ==
    /\ \A i, j \in ObjectEntries :
          (/\ i < j
           /\ processed[i].n.classification = processed[j].n.classification
           /\ Delivered(processed[i])
           /\ Delivered(processed[j]))
          => processed[j].n.t - processed[i].n.t >= debounce_threshold_s
    /\ \A k \in ObjectEntries :
          processed[k].result # "muted"
          => /\ processed[k].result = "debounced" <=> WithinDebounce(k)
             /\ Delivered(processed[k]) <=> ~ WithinDebounce(k)

\* C2, witness: with no mute, a car let through, a second car less than
\* debounce_threshold_s after it debounced
C2_Witness ==
    /\ Len(processed) = 2
    /\ processed[1].n.classification = "car"
    /\ processed[2].n.classification = "car"
    /\ processed[2].n.t - processed[1].n.t = 1
    /\ Delivered(processed[1])
    /\ processed[2].result = "debounced"
    /\ processed[2].mute = None

\* C3: a candidate processed while mute_until is set is suppressed, with no
\* delivery attempt, if its timestamp is earlier than mute_until; otherwise
\* the mute does not suppress it, and it gets its delivery attempt unless it
\* is debounced.
C3_Mute ==
    \A k \in ObjectEntries :
        processed[k].mute # None
        => IF processed[k].n.t < processed[k].mute
           THEN processed[k].result = "muted"
           ELSE /\ processed[k].result # "muted"
                /\ Delivered(processed[k]) <=> ~ WithinDebounce(k)

\* C3, witness: muted until 2, a candidate stamped 1 was suppressed
C3_Witness ==
    \E k \in ObjectEntries :
        /\ processed[k].mute = 2
        /\ processed[k].n.t = 1
        /\ processed[k].result = "muted"

\* C4 as claimed: once a mute request with s < 1 was accepted, and no mute
\* request came after it, no candidate the Notifier takes from its queue is
\* suppressed by the mute check, whatever its timestamp.
C4_UnmuteLetsEveryCandidatePass ==
    [][(/\ web_last.route = "mute"
        /\ web_last.status = 200
        /\ web_last.s.v < 1
        /\ notifications_queue # <<>>
        /\ Head(notifications_queue).kind = "object"
        /\ Len(processed') = Len(processed) + 1)
       => processed'[Len(processed')].result # "muted"]_vars

----------------------------------------------------------------------------
(* Properties of the photo cache (Spec) *)

\* A step of NotifierRun: only the Notifier appends to processed
NotifierStep == Len(processed') = Len(processed) + 1

\* A step of WebPhoto for <key>.jpg
PhotoStep(key) ==
    /\ web_count' = web_count + 1
    /\ web_last'.route = "photo"
    /\ web_last'.key = key
    /\ web_last'.s.kind = ".jpg"

Suppressions == {"muted", "debounced"}

\* the processed Object candidates that _suppress let through
PassedEntries == {k \in ObjectEntries : processed[k].result \notin Suppressions}

\* C11 as claimed: a photo lookup for an id whose cache entry has expires_at
\* in the past answers not-found, whether or not the Notifier has pruned
\* since the entry expired.
C11_ExpiredNeverServed ==
    [][\A r \in records :
          (PhotoStep(r.id) /\ r.expires_at < now) => web_last'.status = 404]_vars

\* C12: a photo lookup for k.jpg made after the record of a non-suppressed
\* Object candidate with id k was stored and before it expires returns the
\* candidate's JPEG bytes as image/jpeg, and not-found when the candidate
\* had no image, whatever the Notifier processed and pruned in between.
C12_PhotoRoundTrip ==
    [][\A k \in PassedEntries :
          LET n == processed[k].n
          IN  (PhotoStep(n.id) /\ now < n.t + photo_retention) =>
                 IF n.jpeg_image = None
                 THEN web_last'.status = 404
                 ELSE /\ web_last'.status = 200
                      /\ web_last'.body = n.jpeg_image
                      /\ web_last'.content_type = "image/jpeg"]_vars

\* C12, witness: the photo of candidate 1 was served at tick 1, and the
\* Notifier has processed (and pruned after) a second candidate
C12_Witness ==
    /\ web_last.route = "photo"
    /\ web_last.key = 1
    /\ web_last.status = 200
    /\ web_last.body = 1
    /\ now = 1
    /\ Len(processed) = 2
    /\ processed[2].result = "sent"

\* C13 as claimed: right after the Notifier finished with a candidate,
\* delivered or suppressed, the cache holds no entry whose expires_at is
\* earlier than the current time.
C13_PrunedAfterEveryCandidate ==
    [][NotifierStep => \A r \in records' : ~ (r.expires_at < now)]_vars

\* C14: the cache holds an entry for id k only if an Object candidate with
\* id k was processed and not suppressed, and the entry holds that
\* candidate's image and expiry; no entry belongs to a muted or debounced
\* candidate.
C14_RecordsOnlyForPassed ==
    \A r \in records :
        \E k \in PassedEntries :
            /\ processed[k].n.id = r.id
            /\ processed[k].n.jpeg_image = r.jpeg_image
            /\ processed[k].n.t + photo_retention = r.expires_at

\* C14, witness: a candidate was delivered and has its entry, another was
\* suppressed and has none
C14_Witness ==
    /\ \E k \in PassedEntries : \E r \in records : r.id = processed[k].n.id
    /\ \E k \in ObjectEntries :
          /\ processed[k].result \in Suppressions
          /\ \A r \in records : r.id # processed[k].n.id

----------------------------------------------------------------------------
(* Properties of the Notifier's dispatch (Spec, SpecNotifier) *)

\* C15: a step in which the Notifier suppresses an Object candidate, by
\* mute or by debounce, leaves the last-sent map, the photo cache and
\* mute_until as they were, makes no POST, and takes the candidate off the
\* queue for good; so a suppressed candidate does not extend the debounce
\* window.
C15_SuppressionChangesNothing ==
    [][(NotifierStep /\ processed'[Len(processed')].result \in Suppressions) =>
          /\ last_notification' = last_notification
          /\ records' = records
          /\ mute_until' = mute_until
          /\ posts' = posts
          /\ notifications_queue' = Tail(notifications_queue)
          /\ enqueued' = enqueued]_vars

\* C15, witness: a car at tick 0 was delivered and a car at tick 1 was
\* debounced; the last-sent time of cars is still 0 and the cache still
\* holds the first car's entry only
C15_Witness ==
    /\ Len(processed) = 2
    /\ processed[1].n.t = 0
    /\ processed[1].result = "sent"
    /\ processed[2].n.t = 1
    /\ processed[2].result = "debounced"
    /\ last_notification["car"] = 0
    /\ {r.id : r \in records} = {processed[1].n.id}
    /\ Len(posts) = 1

\* C16: when the delivery of a non-suppressed candidate failed, a later
\* candidate of the same classification stamped less than
\* debounce_threshold_s after it is debounced all the same.
C16_FailedDeliveryStillDebounces ==
    \A k, j \in ObjectEntries :
        (/\ k < j
         /\ processed[k].result = "error"
         /\ processed[j].n.classification = processed[k].n.classification
         /\ processed[j].n.t >= processed[k].n.t
         /\ processed[j].n.t - processed[k].n.t < debounce_threshold_s)
        => processed[j].result = "debounced"

\* C16, witness: the POST for a car failed and the next car, one tick
\* later, was debounced
C16_Witness ==
    \E k, j \in ObjectEntries :
        /\ j = k + 1
        /\ processed[k].result = "error"
        /\ processed[k].n.classification = "car"
        /\ processed[j].n.classification = "car"
        /\ processed[j].n.t = processed[k].n.t + 1
        /\ processed[j].result = "debounced"

\* the candidates the Notifier took and did not suppress, in the order it
\* took them
NotSuppressed ==
    SelectSeq(processed, LAMBDA e : e.result \notin Suppressions)

\* C17: the POSTs ever made are as many as the candidates processed and not
\* suppressed, Object or Feedback; each such candidate has exactly one POST,
\* also when the attempt failed, and a suppressed candidate has none.  (Two
\* mute requests with the same body put equal FeedbackNotifications on the
\* queue, so POSTs are counted against the processed candidates of the same
\* content.)
C17_OnePostPerCandidate ==
    /\ Len(posts) = Len(NotSuppressed)
    /\ \A k \in 1..Len(processed) :
          Cardinality({i \in 1..Len(posts) : posts[i] = processed[k].n})
              = Cardinality({j \in 1..Len(NotSuppressed) :
                                NotSuppressed[j].n = processed[k].n})

\* C17, witness: a failed attempt, a muted candidate and the feedback of the
\* mute request: three candidates, two POSTs
C17_Witness ==
    /\ Len(processed) = 3
    /\ Len(posts) = 2
    /\ \E k \in 1..3 : processed[k].result = "error"
    /\ \E k \in 1..3 : processed[k].result = "muted"
    /\ \E k \in 1..3 : processed[k].n.kind = "feedback"

\* C18: a step in which the Notifier takes a FeedbackNotification makes a
\* delivery attempt for it, whatever mute_until and the last-sent map hold,
\* leaves the last-sent map as it was and adds no photo cache entry.
C18_FeedbackNeverSuppressed ==
    [][(/\ NotifierStep
        /\ notifications_queue # <<>>
        /\ Head(notifications_queue).kind = "feedback") =>
          /\ processed'[Len(processed')].result \in {"sent", "error"}
          /\ posts' = Append(posts, Head(notifications_queue))
          /\ last_notification' = last_notification
          /\ records' \subseteq records]_vars

\* C18, witness: the feedback of a mute request was processed while the
\* mute was still in force
C18_Witness ==
    \E k \in 1..Len(processed) :
        /\ processed[k].n.kind = "feedback"
        /\ processed[k].n.type = "muted"
        /\ processed[k].mute > now
        /\ posts[Len(posts)] = processed[k].n

\* C19: the Notifier takes the candidates in the order they were put on the
\* queue, whoever put them; what it has taken and what is still queued make
\* up everything ever put, in order; and the delivery attempts are, in
\* order, the candidates it took and did not suppress.
C19_Fifo ==
    /\ enqueued = [i \in 1..Len(processed) |-> processed[i].n] \o notifications_queue
    /\ posts = [i \in 1..Len(NotSuppressed) |-> NotSuppressed[i].n]

\* C19, witness: with a feedback and an Object candidate waiting on the
\* queue, in that order, an Object candidate was delivered; two more steps
\* attempt the feedback first
C19_Witness ==
    /\ Len(notifications_queue) = 2
    /\ notifications_queue[1].kind = "feedback"
    /\ notifications_queue[2].kind = "object"
    /\ Len(posts) = 1

\* C20 as claimed: whatever the enrichment endpoint answers, the Notifier
\* keeps running and every candidate it did not suppress gets its delivery
\* attempt, with the timestamp, classification, event, id and image it
\* came with.
C20_EnrichmentNeverFailsDispatch ==
    /\ ~ notifier_exc
    /\ \A k \in PassedEntries :
          \E i \in 1..Len(posts) :
              posts[i] = [enqueued[k] EXCEPT !.enriched_class = posts[i].enriched_class]

----------------------------------------------------------------------------
(* Properties of failures and of start-up (SpecFair, SpecTracker) *)

DeliveryFailed == \E k \in 1..Len(processed) : processed[k].result = "error"
PingFailed == \E k \in 1..Len(pinged) : pinged[k].result = "error"

\* C21: a delivery or a health ping that fails with a transport error or a
\* timeout ends neither consumer nor the program; from any moment after a
\* failure on, whatever is on the consumer's queue is eventually taken and
\* processed: the queue is empty again.
C21_TransientFailuresNotFatal ==
    /\ [](~ notifier_exc /\ exit_status = None)
    /\ [](DeliveryFailed => <>(notifications_queue = <<>>))
    /\ [](PingFailed => <>(health_ping_queue = <<>>))

\* C21, witness: the first delivery and the first ping failed, and a second
\* candidate and a second ping were processed after them
C21_Witness ==
    /\ Len(processed) = 2
    /\ processed[1].result = "error"
    /\ Len(pinged) = 2
    /\ pinged[1].result = "error"

----------------------------------------------------------------------------
(* Properties of the mute endpoint (Spec) *)

\* A step of WebMute
MuteStep == web_count' = web_count + 1 /\ web_last'.route = "mute"

\* C23: a mute request with the key of a cache entry and an integer s is
\* answered 200; with s >= 1 it sets mute_until to the time of the request
\* plus s seconds and queues one MUTED feedback with the key and
\* mute_seconds = s; with s < 1 it queues one UNMUTED feedback with the key.
C23_AcceptedMute ==
    [][(/\ MuteStep
        /\ web_last'.key \in {r.id : r \in records}
        /\ web_last'.s.kind = "int") =>
          LET key == web_last'.key
              secs == web_last'.s.v
              feedback == IF secs >= 1
                          THEN FeedbackNotification("muted", key, secs)
                          ELSE FeedbackNotification("unmuted", key, None)
          IN  /\ web_last'.status = 200
              /\ secs >= 1 => mute_until' = now + TicksPerSecond * secs
              /\ notifications_queue' = Append(notifications_queue, feedback)
              /\ enqueued' = Append(enqueued, feedback)]_vars

\* C23, witness: a request with s = 1 made at tick 1 muted until tick 3
C23_Witness ==
    /\ web_last.route = "mute"
    /\ web_last.status = 200
    /\ web_last.s = IntS(1)
    /\ mute_until = 3
    /\ \E i \in 1..Len(enqueued) :
          enqueued[i] = FeedbackNotification("muted", web_last.key, 1)

\* C24 as claimed: a mute request whose key is missing or is not the id of a
\* cache entry, or whose s is missing or is not an integer, is answered with
\* a client error, leaves mute_until as it was and queues no feedback.
C24_RejectedMute ==
    [][(/\ MuteStep
        /\ \/ web_last'.key = None
           \/ web_last'.key \notin {r.id : r \in records}
           \/ web_last'.s.kind # "int") =>
          /\ web_last'.status \in 400..499
          /\ mute_until' = mute_until
          /\ enqueued' = enqueued]_vars

\* C25: whether the Notifier suppresses an Object candidate as muted depends
\* on the mute_until it reads when it takes the candidate, and on nothing
\* that was in force when the candidate was put on the queue.
C25_MuteReadAtDecision ==
    [][(/\ NotifierStep
        /\ notifications_queue # <<>>
        /\ Head(notifications_queue).kind = "object") =>
          (processed'[Len(processed')].result = "muted"
              <=> (/\ mute_until # None
                   /\ Head(notifications_queue).t < mute_until))]_vars

\* C25, witness: an Object candidate was queued before the feedback of the
\* mute request, so before mute_until was written, and was muted
C25_Witness ==
    \E i, j \in 1..Len(enqueued) :
        /\ i < j
        /\ enqueued[i].kind = "object"
        /\ enqueued[j].kind = "feedback"
        /\ enqueued[j].type = "muted"
        /\ i <= Len(processed)
        /\ processed[i].result = "muted"

----------------------------------------------------------------------------
(* Properties of the notification criteria (SpecTracker) *)

\* C26: a track's classification is a label no other label of the track
\* occurs more often than, and among the labels that occur as often it is
\* the one that occurs first.
C26_ClassificationIsFirstMode ==
    \A i \in 1..Len(tracks) :
        LET tr == tracks[i]
            c == Classification(tr)
            labels == {tr.predictions[k].classification : k \in 1..Len(tr.predictions)}
        IN  /\ c \in labels
            /\ \A d \in labels \ {c} :
                  \/ NameVotes(tr, c) > NameVotes(tr, d)
                  \/ /\ NameVotes(tr, c) = NameVotes(tr, d)
                     /\ FirstSeen(tr, c) < FirstSeen(tr, d)

\* C26, witness: the track [truck, car] is a truck
C26_Witness ==
    \E i \in 1..Len(tracks) :
        /\ Len(tracks[i].predictions) = 2
        /\ tracks[i].predictions[1].classification = "truck"
        /\ tracks[i].predictions[2].classification = "car"
        /\ Classification(tracks[i]) = "truck"

\* the track the event of this step went to, as it is after the step
TrackOfStep ==
    tracks'[CHOOSE i \in 1..Len(tracks') :
               tracks'[i].predictions[Len(tracks'[i].predictions)].id
                   = Head(tracks_queue).id]

\* that track had triggered its notification before the step
NotifiedBefore ==
    \E j \in 1..Len(tracks) :
        tracks[j].id = TrackOfStep.id /\ tracks[j].triggered_notification

\* the step put the candidate of that track on the queue
EmitsCandidate ==
    /\ Len(notifications_queue') = Len(notifications_queue) + 1
    /\ notifications_queue'[Len(notifications_queue')].id = TrackOfStep.id

\* the criteria, each as the configuration states it
AllowlistHolds(tr) ==
    \/ tracker_cfg.notify_classification_allowlist = {}
    \/ Classification(tr) \in tracker_cfg.notify_classification_allowlist
BlocklistHolds(tr) ==
    Classification(tr) \notin tracker_cfg.notify_classification_blocklist
MinimumFor(tr) ==
    LET per == tracker_cfg.notify_min_track_length_s_per_classification[Classification(tr)]
    IN  IF per # None THEN per ELSE tracker_cfg.notify_min_track_length_s
LengthHolds(tr) == LastT(tr) - FirstT(tr) >= MinimumFor(tr)
RuleHolds(tr) ==
    tracker_cfg.notify_track_cel = CelIsCar => Classification(tr) = "car"

\* C27: on every event appended to a confirmed track that has not notified,
\* the criteria are evaluated on the track as it then is, and the candidate
\* is put on the queue in that very step iff they all pass; earlier failures
\* do not count.
C27_EmittedAtFirstPassingEvent ==
    [][(TrackerStep /\ TrackOfStep.is_model_track /\ ~ NotifiedBefore) =>
          (EmitsCandidate <=>
              /\ AllowlistHolds(TrackOfStep)
              /\ BlocklistHolds(TrackOfStep)
              /\ LengthHolds(TrackOfStep)
              /\ RuleHolds(TrackOfStep))]_vars

\* C27, witness: under the defaults a track of events at ticks 0, 1 and 2
\* failed the length check twice and notified on its third event
C27_Witness ==
    /\ tracker_cfg = ConfigDefault
    /\ \E i \in 1..Len(tracks) :
          /\ Len(tracks[i].predictions) = 3
          /\ tracks[i].predictions[1].is_track
          /\ tracks[i].predictions[2].t = 1
          /\ tracks[i].predictions[3].t = 2
          /\ tracks[i].triggered_notification
          /\ \E k \in 1..Len(notifications_queue) :
                notifications_queue[k].id = tracks[i].id

\* C28: a track that is confirmed, has not notified and passes the other
\* checks emits its candidate iff its span is at least the minimum of its
\* current classification: the table's entry if there is one, the default
\* otherwise.
C28_MinimumDuration ==
    [][(/\ TrackerStep
        /\ TrackOfStep.is_model_track
        /\ ~ NotifiedBefore
        /\ AllowlistHolds(TrackOfStep)
        /\ BlocklistHolds(TrackOfStep)
        /\ RuleHolds(TrackOfStep)) =>
          (EmitsCandidate <=>
              LastT(TrackOfStep) - FirstT(TrackOfStep) >= MinimumFor(TrackOfStep))]_vars

\* C28, witness: with a minimum of 1 s for trucks and 0 by default, a truck
\* track of three events that spans exactly 1 s has notified
C28_Witness ==
    /\ tracker_cfg = ConfigPerClass
    /\ \E i \in 1..Len(tracks) :
          /\ Classification(tracks[i]) = "truck"
          /\ LengthT(tracks[i]) = 2
          /\ Len(tracks[i].predictions) = 3
          /\ tracks[i].triggered_notification

\* C29: a track that is confirmed, has not notified and passes the length
\* check and the rule emits its candidate iff its classification is in the
\* allowlist, or the allowlist is not set or empty, and is not in the
\* blocklist; with nothing configured and a minimum of 0 every track emits
\* on the first event at which it is confirmed.
C29_AllowlistAndBlocklist ==
    [][(/\ TrackerStep
        /\ TrackOfStep.is_model_track
        /\ ~ NotifiedBefore) =>
          /\ (LengthHolds(TrackOfStep) /\ RuleHolds(TrackOfStep)) =>
                (EmitsCandidate <=>
                    /\ \/ tracker_cfg.notify_classification_allowlist = {}
                       \/ Classification(TrackOfStep)
                            \in tracker_cfg.notify_classification_allowlist
                    /\ Classification(TrackOfStep)
                            \notin tracker_cfg.notify_classification_blocklist)
          /\ tracker_cfg = ConfigImmediate => EmitsCandidate]_vars

\* C29, witness: with only cars allowed, a confirmed truck track 1 s long
\* has not notified
C29_Witness ==
    /\ tracker_cfg = ConfigAllowCar
    /\ \E i \in 1..Len(tracks) :
          /\ Classification(tracks[i]) = "truck"
          /\ tracks[i].is_model_track
          /\ LengthT(tracks[i]) = 2
          /\ ~ tracks[i].triggered_notification

\* C30: a track that is confirmed, has not notified and passes the
\* allowlist, the blocklist and the length check emits its candidate iff no
\* rule is set or the rule is true of it; when the rule is not true the
\* track stays live and un-notified.
C30_RuleIsLastCheck ==
    [][(/\ TrackerStep
        /\ TrackOfStep.is_model_track
        /\ ~ NotifiedBefore
        /\ AllowlistHolds(TrackOfStep)
        /\ BlocklistHolds(TrackOfStep)
        /\ LengthHolds(TrackOfStep)) =>
          IF tracker_cfg.notify_track_cel = CelIsCar
                /\ Classification(TrackOfStep) # "car"
          THEN /\ ~ EmitsCandidate
               /\ notifications_queue' = notifications_queue
               /\ ~ TrackOfStep.triggered_notification
          ELSE EmitsCandidate /\ TrackOfStep.triggered_notification]_vars

\* C30, witness: under the rule track.classification == "car" a truck track
\* long enough was rejected on its second and third events and is still
\* un-notified
C30_Witness ==
    /\ tracker_cfg = ConfigCel
    /\ \E i \in 1..Len(tracks) :
          /\ Classification(tracks[i]) = "truck"
          /\ tracks[i].is_model_track
          /\ Len(tracks[i].predictions) = 3
          /\ LengthT(tracks[i]) = 2
          /\ ~ tracks[i].triggered_notification

----------------------------------------------------------------------------
(* Properties of the candidate and of the track's state (SpecTracker) *)

\* the label c is the most frequent of the track, the earliest among equals
IsFirstMode(tr, c) ==
    /\ NameVotes(tr, c) > 0
    /\ \A d \in Classifications \ {c} :
          \/ NameVotes(tr, d) < NameVotes(tr, c)
          \/ NameVotes(tr, d) = NameVotes(tr, c) /\ NameVotes(tr, d) > 0
                /\ FirstSeen(tr, c) < FirstSeen(tr, d)

\* C31: the candidate put for a track carries the time and the id of the
\* track's first event, the track's majority classification as it is at
\* that step and the phrase "arrived in driveway"; its image is the track's
\* best image, or none when the encoding failed.
C31_CandidateFields ==
    [][(TrackerStep /\ EmitsCandidate) =>
          LET n == notifications_queue'[Len(notifications_queue')]
              tr == TrackOfStep
          IN  /\ n.kind = "object"
              /\ n.t = tr.predictions[1].t
              /\ n.id = tr.predictions[1].id
              /\ n.id = tr.id
              /\ IsFirstMode(tr, n.classification)
              /\ n.event = "arrived in driveway"
              /\ n.jpeg_image \in {tr.best_image, None}]_vars

\* C31, witness: a track whose events are at ticks 0, 1 and 2 put its
\* candidate on its third event, stamped 0 and without an image
C31_Witness ==
    /\ tracker_cfg = ConfigDefault
    /\ \E i \in 1..Len(tracks) :
          /\ Len(tracks[i].predictions) = 3
          /\ FirstT(tracks[i]) = 0
          /\ LastT(tracks[i]) = 2
          /\ \E k \in 1..Len(enqueued) :
                /\ enqueued[k].id = tracks[i].id
                /\ enqueued[k].t = 0
                /\ enqueued[k].jpeg_image = None

\* the area of the box of the k-th event of a track
AreaOf(tr, k) ==
    (tr.predictions[k].box.bx - tr.predictions[k].box.ax)
        * (tr.predictions[k].box.by - tr.predictions[k].box.ay)

\* C32: a track's best_image_coverage is the greatest box area among its
\* events, and its best_image is the image of the earliest event with that
\* area.
C32_BestImageIsEarliestLargest ==
    \A i \in 1..Len(tracks) :
        LET tr == tracks[i]
            ks == 1..Len(tr.predictions)
        IN  \E k \in ks :
              /\ \A j \in ks : AreaOf(tr, j) <= AreaOf(tr, k)
              /\ \A j \in 1..(k - 1) : AreaOf(tr, j) < AreaOf(tr, k)
              /\ tr.best_image_coverage = AreaOf(tr, k)
              /\ tr.best_image = tr.predictions[k].image

\* C32, witness: a track of a small box and then two equal larger ones keeps
\* the image of the second event
C32_Witness ==
    \E i \in 1..Len(tracks) :
        LET tr == tracks[i]
        IN  /\ Len(tr.predictions) = 3
            /\ AreaOf(tr, 1) < AreaOf(tr, 2)
            /\ AreaOf(tr, 2) = AreaOf(tr, 3)
            /\ tr.best_image = tr.predictions[2].image
            /\ tr.best_image # tr.predictions[3].image

\* the overlap of the event's box with the average of the track's last two
\* boxes is more than need/100 of their union
OverlapsMoreThan(tr, p, need) ==
    LET n == Len(tr.predictions)
        last == tr.predictions[n].box
        prev == tr.predictions[IF n < 2 THEN n ELSE n - 1].box
        ax == (prev.ax + last.ax) \div 2
        ay == (prev.ay + last.ay) \div 2
        bx == (prev.bx + last.bx) \div 2
        by == (prev.by + last.by) \div 2
        w == Min2(bx, p.box.bx) - Max2(ax, p.box.ax)
        h == Min2(by, p.box.by) - Max2(ay, p.box.ay)
        inter == IF w > 0 /\ h > 0 THEN w * h ELSE 0
        union == (bx - ax) * (by - ay)
                   + (p.box.bx - p.box.ax) * (p.box.by - p.box.ay) - inter
    IN  100 * inter > need * union

\* a live track qualifies for the event: more than 20 %, more than 30 % when
\* the track's classification is not the event's
Qualifies(tr, p) ==
    OverlapsMoreThan(tr, p, IF Classification(tr) = p.classification THEN 20 ELSE 30)

\* C33: the event of a Tracker step is appended to a live track that
\* qualifies for it, and to no other; when no live track qualifies it starts
\* a new track.
C33_QualifyingOverlap ==
    [][TrackerStep =>
        LET p == Head(tracks_queue)
            live == SelectSeq(tracks,
                        LAMBDA tr : p.t - LastT(tr) < inactive_track_prune_s)
            qualifying == {i \in 1..Len(live) : Qualifies(live[i], p)}
        IN  /\ qualifying = {} =>
                  /\ Len(tracks') = Len(live) + 1
                  /\ tracks'[Len(tracks')].predictions = <<p>>
            /\ qualifying # {} =>
                  /\ Len(tracks') = Len(live)
                  /\ \E i \in qualifying :
                        tracks'[i].predictions = Append(live[i].predictions, p)
            /\ \A i \in (1..Len(live)) \ qualifying :
                  tracks'[i].predictions = live[i].predictions]_vars

\* C33, witness: a truck that overlaps a live car track by 2/9, more than
\* 1/5 and less than 3/10, started a track of its own; a car that overlaps
\* the car track by exactly 1/5 then passed it by and went to the truck's
C33_Witness ==
    /\ Len(tracks) = 2
    /\ Len(tracks[1].predictions) = 1
    /\ tracks[1].predictions[1].box = BoxLeft
    /\ tracks[1].predictions[1].classification = "car"
    /\ Len(tracks[2].predictions) = 2
    /\ tracks[2].predictions[1].box = BoxMid
    /\ tracks[2].predictions[1].classification = "truck"
    /\ tracks[2].predictions[1].t = tracks[1].predictions[1].t
    /\ tracks[2].predictions[2].box = BoxEdge
    /\ tracks[2].predictions[2].classification = "car"
    /\ tracks[2].predictions[2].t = tracks[1].predictions[1].t

\* C34 as claimed: whatever events the Tracker was given, the predictions of
\* each of its tracks are not empty, are in the order of their arrival, and
\* their timestamps never decrease.
C34_PredictionsOrdered ==
    \A i \in 1..Len(tracks) :
        LET ps == tracks[i].predictions
        IN  /\ Len(ps) >= 1
            /\ \A j, k \in 1..Len(ps) :
                  j < k => ps[j].id < ps[k].id /\ ps[j].t <= ps[k].t

----------------------------------------------------------------------------
(* Properties of the control server and of the cache (SpecWebThreads, Spec) *)

\* the feedback notifications the Notifier has POSTed, in order
FeedbackPosts == SelectSeq(posts, LAMBDA n : n.kind = "feedback")

\* C35 as claimed: when no mute request is in the handler any more and the
\* notifications queue is empty, the last feedback the Notifier sent is the
\* one of the request that wrote mute_until last.
C35_AcknowledgementsAgree ==
    (/\ web_pending = {}
     /\ notifications_queue = <<>>
     /\ mute_writer # NoFeedback) =>
        /\ FeedbackPosts # <<>>
        /\ FeedbackPosts[Len(FeedbackPosts)] = mute_writer

\* C36 as claimed: whenever notifications are muted, mute_until later than
\* now, the photo cache holds at least one key, so that a request to unmute
\* with that key is accepted.
C36_CanAlwaysUnmute ==
    (mute_until # None /\ mute_until > now) => records # {}

\* the durations the Notifier makes shortcuts for, and one with hours and
\* minutes
ShortcutSeconds == {0, 10 * 60, 60 * 60, 90 * 60, 4 * 60 * 60, 12 * 60 * 60}

\* the words of the label of a shortcut for sec seconds
ShortcutLabel(sec) ==
    LET h == sec \div 3600
        m == (sec - 3600 * h) \div 60
    IN  IF sec = 0 THEN <<"Unmute">>
        ELSE IF sec < 3600 THEN <<"Mute", sec \div 60, "m">>
        ELSE IF m = 0 THEN <<"Mute", h, "h">>
        ELSE <<"Mute", h, "h", m, "m">>

\* C37: the Actions header of every Object notification the Notifier POSTs
\* holds the shortcuts for 10 minutes, 1 hour and 4 hours, each with the
\* notification's id as key, and that id is in the photo cache when the POST
\* is made; a shortcut's label is "Unmute" for 0 s, minutes below an hour,
\* hours (and minutes, if any) from an hour up, and its body holds s and key.
C37_MuteShortcuts ==
    /\ \A i \in 1..Len(attempts) :
          attempts[i].kind = "object" =>
              LET a == attempts[i]
              IN  /\ a.id = posts[i].id
                  /\ Len(a.actions) = 3
                  /\ a.actions[1].s = 600
                  /\ a.actions[2].s = 3600
                  /\ a.actions[3].s = 14400
                  /\ \A j \in 1..3 :
                        /\ a.actions[j].key = a.id
                        /\ a.actions[j].label = ShortcutLabel(a.actions[j].s)
                  /\ a.id \in a.cached
    /\ \A sec \in ShortcutSeconds :
          NtfyMuteActionBlob(sec, 1) = [label |-> ShortcutLabel(sec), s |-> sec, key |-> 1]

\* C37, witness: an Object notification was POSTed with its shortcuts while
\* its id was in the cache, and the pruning that follows the POST has
\* already taken the id out again
C37_Witness ==
    \E i \in 1..Len(attempts) :
        /\ attempts[i].kind = "object"
        /\ attempts[i].actions[1] = [label |-> <<"Mute", 10, "m">>, s |-> 600,
                                     key |-> attempts[i].id]
        /\ attempts[i].id \in attempts[i].cached
        /\ Len(attempts) = i
        /\ attempts[i].id \notin {r.id : r \in records}

----------------------------------------------------------------------------
(* Properties of the last-sent times (SpecNotifier) *)

\* C38: the last-sent time of a classification, once set, is never unset and
\* never moves back; an Object candidate stamped before the last-sent time of
\* its classification is suppressed.
C38_LastSentNeverDecreases ==
    [][/\ \A c \in Classifications :
            last_notification[c] # None =>
                /\ last_notification'[c] # None
                /\ last_notification'[c] >= last_notification[c]
       /\ (/\ NotifierStep
           /\ notifications_queue # <<>>
           /\ Head(notifications_queue).kind = "object"
           /\ last_notification[Head(notifications_queue).classification] # None
           /\ Head(notifications_queue).t
                 < last_notification[Head(notifications_queue).classification]) =>
             processed'[Len(processed')].result \in Suppressions]_vars

\* C38, witness: a car candidate stamped 0 was processed after a car
\* notification stamped later had been sent; it was debounced and the
\* last-sent time of cars is still the later one
C38_Witness ==
    \E k \in 1..Len(processed) :
        /\ k > 1
        /\ processed[k].n.kind = "object"
        /\ processed[k].n.classification = "car"
        /\ processed[k].result = "debounced"
        /\ processed[k - 1].n.classification = "car"
        /\ processed[k - 1].result = "sent"
        /\ processed[k].n.t < processed[k - 1].n.t
        /\ Len(processed) = k
        /\ last_notification["car"] = processed[k - 1].n.t

----------------------------------------------------------------------------
(* Supervision (SpecCapture) *)

\* the exit records of one child, on the exit queue or taken by main
ExitRecordsOf(c) ==
    {i \in 1..Len(exit_queue) : exit_queue[i].class_name = c}
    \cup (IF exit_taken.class_name = c THEN {0} ELSE {})

\* the exit record of a child that has one
ExitRecordOf(c) ==
    IF exit_taken.class_name = c THEN exit_taken
    ELSE exit_queue[CHOOSE i \in 1..Len(exit_queue) : exit_queue[i].class_name = c]

\* everything but the wall clock
ProcessState ==
    <<next_id, video, tracker_cfg, tracks_queue, tracks, notifications_queue,
      last_notification, mute_until, records, processed, web_count, web_last,
      posts, enqueued, enrichment, notifier_exc, supervision, health,
      attempts, serving, capture>>

\* C39: a child whose _run has returned or raised has exactly one exit record,
\* telling which of the two happened, and a child still in _run has none; main
\* exits on the first record of the exit queue, with status 1 when that record
\* carries an exception and 0 otherwise; after main has exited nothing but the wall
\* clock changes; a record on the exit queue leads to the exit of main.
C39_Supervision ==
    /\ [](/\ Cardinality(ExitRecordsOf("PredModel"))
               = (IF pred_state \in {"ended", "raised"} THEN 1 ELSE 0)
          /\ pred_state \in {"ended", "raised"} =>
                ExitRecordOf("PredModel").is_exc = (pred_state = "raised")
          /\ Cardinality(ExitRecordsOf("Tracker"))
               = (IF tracker_state = "raised" THEN 1 ELSE 0)
          /\ tracker_state = "raised" => ExitRecordOf("Tracker").is_exc
          /\ (exit_status # None) = (exit_taken # NoChildExit)
          /\ exit_status # None =>
                exit_status = (IF exit_taken.is_exc THEN 1 ELSE 0))
    /\ [][/\ exit_status # None => UNCHANGED ProcessState
          /\ (exit_status = None /\ exit_status' # None) =>
                /\ exit_queue # <<>>
                /\ exit_taken' = Head(exit_queue)]_vars
    /\ ((exit_queue # <<>>) ~> (exit_status # None))

\* C39, witness: PredModel ended normally and the Tracker raised; main took
\* the record of PredModel first and exited with status 0, the Tracker's
\* record still on the queue
C39_Witness ==
    /\ exit_status = 0
    /\ exit_taken = ChildExit("PredModel", FALSE)
    /\ exit_queue = <<ChildExit("Tracker", TRUE)>>
    /\ pred_state = "ended"
    /\ tracker_state = "raised"

----------------------------------------------------------------------------
(* The reconnect back-off of PredModel (SpecCapture) *)

\* the largest delay the back-off may reach
ReconnectDelayBound ==
    Max2(stream_reconnect_max_backoff_s,
         Max2(stream_reconnect_initial_backoff_s, reconnect_delay_floor_s))

\* C40: a stream source is never given up: PredModel is capturing or waiting
\* to reopen, posts no exit record, and a wait is followed by a new run as long
\* as main has not exited. The delay chosen at the end of a run is the initial
\* back-off when the run read a frame and otherwise twice the previous delay,
\* up to the bound; it changes at no other step and never exceeds the bound.
\* A source that is no stream ends with its first run and is never reopened.
C40_ReconnectBackoff ==
    /\ [](/\ reconnect_delay_s <= ReconnectDelayBound
          /\ is_stream =>
                /\ pred_state \in {"capturing", "sleeping"}
                /\ \A i \in 1..Len(exit_queue) :
                       exit_queue[i].class_name # "PredModel"
                /\ exit_taken.class_name # "PredModel"
          /\ ~ is_stream =>
                /\ pred_state \in {"capturing", "ended", "raised"}
                /\ reconnect_delay_s = ReconnectDelayInit)
    /\ [][/\ (pred_state = "capturing" /\ pred_state' = "sleeping") =>
                reconnect_delay_s' =
                    (IF frames_seen_last_run > 0
                     THEN stream_reconnect_initial_backoff_s
                     ELSE IF reconnect_delay_s * 2 <= ReconnectDelayBound
                          THEN reconnect_delay_s * 2
                          ELSE ReconnectDelayBound)
          /\ ~ (pred_state = "capturing" /\ pred_state' = "sleeping") =>
                reconnect_delay_s' = reconnect_delay_s
          /\ (is_stream /\ pred_state = "capturing" /\ pred_state' # "capturing") =>
                pred_state' = "sleeping"
          /\ pred_state \in {"ended", "raised"} => pred_state' = pred_state]_vars
    /\ ((pred_state = "sleeping") ~> (pred_state = "capturing" \/ exit_status # None))

\* C40, witness: a stream was reopened after a run that read a frame, and the
\* run after it read none and ended: the delay is twice the initial back-off
C40_Witness ==
    /\ is_stream
    /\ pred_state = "sleeping"
    /\ frames_seen_last_run = 0
    /\ reconnect_delay_s = 2 * stream_reconnect_initial_backoff_s
    /\ next_id > 1

====
